---- MODULE Spec2Model ----
\* Daily-report service of j-tlaporan: the sheet scans of ReportService
\* (cargo, express, pengeluaran), the day and range orchestrators and the
\* HTTP handlers of server.js.
\*
\* Cell texts are sequences of one-character strings, so that trim,
\* toLowerCase, includes, the regular expressions and parseFloat are computed
\* character by character.  Numbers are exact decimals [nan, m, e] standing
\* for m / 10^e (binary rounding of IEEE doubles is not modelled).
EXTENDS Integers, Sequences, FiniteSets, TLC

\* ---------------------------------------------------------------------
\* Bounds of the model
\* ---------------------------------------------------------------------
MaxRows == 3
MaxClassRows == 2
MaxExpressRows == 3

\* ---------------------------------------------------------------------
\* Characters and strings
\* ---------------------------------------------------------------------
Digits == <<"0", "1", "2", "3", "4", "5", "6", "7", "8", "9">>
UpperLetters == <<"A","B","C","D","E","F","G","H","I","J","K","L","M",
                  "N","O","P","Q","R","S","T","U","V","W","X","Y","Z">>
LowerLetters == <<"a","b","c","d","e","f","g","h","i","j","k","l","m",
                  "n","o","p","q","r","s","t","u","v","w","x","y","z">>

Range(s) == {s[i] : i \in DOMAIN s}

DigitSet == Range(Digits)
UpperSet == Range(UpperLetters)
LowerSet == Range(LowerLetters)
DigitValOf == [c \in DigitSet |-> (CHOOSE i \in DOMAIN Digits : Digits[i] = c) - 1]
LowerOf ==
  [c \in UpperSet |-> LowerLetters[CHOOSE i \in DOMAIN UpperLetters : UpperLetters[i] = c]]
UpperOf ==
  [c \in LowerSet |-> UpperLetters[CHOOSE i \in DOMAIN LowerLetters : LowerLetters[i] = c]]

IsDigit(c) == c \in DigitSet

DigitVal(c) == DigitValOf[c]

IsSpace(c) == c \in {" ", "\t", "\n"}

LowerChar(c) == IF c \in UpperSet THEN LowerOf[c] ELSE c

UpperChar(c) == IF c \in LowerSet THEN UpperOf[c] ELSE c

\* String.prototype.toLowerCase / toUpperCase
toLowerCase(s) == [i \in DOMAIN s |-> LowerChar(s[i])]
toUpperCase(s) == [i \in DOMAIN s |-> UpperChar(s[i])]

\* String.prototype.includes
includes(s, sub) ==
  \E i \in 1..(Len(s) - Len(sub) + 1) : SubSeq(s, i, i + Len(sub) - 1) = sub

\* String.prototype.trim
trim(s) ==
  LET keep == {i \in DOMAIN s : ~IsSpace(s[i])}
  IN IF keep = {} THEN <<>>
     ELSE LET lo == CHOOSE i \in keep : \A j \in keep : i <= j
              hi == CHOOSE i \in keep : \A j \in keep : i >= j
          IN SubSeq(s, lo, hi)

\* JavaScript truthiness of a cell: undefined and '' are falsy
Truthy(s) == s # <<>>

\* s.replace(/[^\d.-]/g, '')
IsNumericChar(c) == IsDigit(c) \/ c = "." \/ c = "-"
stripNonNumeric(s) == SelectSeq(s, IsNumericChar)

\* ---------------------------------------------------------------------
\* Numbers
\* ---------------------------------------------------------------------
NaN == [nan |-> TRUE, m |-> 0, e |-> 0]

RECURSIVE Normal(_, _)
Normal(m, e) ==
  IF e > 0 /\ m % 10 = 0 THEN Normal(m \div 10, e - 1)
  ELSE [nan |-> FALSE, m |-> m, e |-> e]

Num(n) == [nan |-> FALSE, m |-> n, e |-> 0]

RECURSIVE Pow10(_)
Pow10(k) == IF k = 0 THEN 1 ELSE 10 * Pow10(k - 1)

isNaN(x) == x.nan

\* the + of two numbers; NaN is absorbing
Plus(x, y) ==
  IF x.nan \/ y.nan THEN NaN
  ELSE LET e == IF x.e >= y.e THEN x.e ELSE y.e
       IN Normal(x.m * Pow10(e - x.e) + y.m * Pow10(e - y.e), e)

\* length of the longest prefix of s made of digits
RECURSIVE DigitRun(_)
DigitRun(s) ==
  IF s # <<>> /\ IsDigit(Head(s)) THEN 1 + DigitRun(Tail(s)) ELSE 0

RECURSIVE DigitsValue(_, _)
DigitsValue(s, acc) ==
  IF s = <<>> THEN acc ELSE DigitsValue(Tail(s), 10 * acc + DigitVal(Head(s)))

\* parseFloat: leading white space, an optional sign, digits, an optional
\* '.' and digits; the longest such prefix is converted, and NaN is returned
\* when it holds no digit.  (No exponent: the callers strip letters first.)
RECURSIVE SkipSpace(_)
SkipSpace(s) == IF s # <<>> /\ IsSpace(Head(s)) THEN SkipSpace(Tail(s)) ELSE s

parseFloat(str) ==
  LET s0 == SkipSpace(str)
      signed == s0 # <<>> /\ Head(s0) \in {"-", "+"}
      neg == signed /\ Head(s0) = "-"
      s1 == IF signed THEN Tail(s0) ELSE s0
      ni == DigitRun(s1)
      s2 == SubSeq(s1, ni + 1, Len(s1))
      dot == s2 # <<>> /\ Head(s2) = "."
      s3 == IF dot THEN Tail(s2) ELSE <<>>
      nf == DigitRun(s3)
      mant == DigitsValue(SubSeq(s1, 1, ni) \o SubSeq(s3, 1, nf), 0)
  IN IF ni + nf = 0 THEN NaN
     ELSE Normal(IF neg THEN 0 - mant ELSE mant, nf)

\* cell ? parseFloat(cell.toString().replace(/[^\d.-]/g, '')) : 0
numberOf(cell) ==
  IF Truthy(cell) THEN parseFloat(stripNonNumeric(cell)) ELSE Num(0)

\* ---------------------------------------------------------------------
\* Cell texts used by the sheets of the model
\* ---------------------------------------------------------------------
Empty == <<>>
Blank == <<" ">>
Null == <<"null">>
TBD == <<"T", "B", "D">>
Label05 == <<"0", "5">>
Label06 == <<"0", "6">>
Label5 == <<"5">>
Marker == <<"P","E","N","G","E","L","U","A","R","A","N">>
Awb10 == <<"1","2","3","4","5","6","7","8","9","0">>
Awb9 == <<"1","2","3","4","5","6","7","8","9">>
Awb12 == Awb10 \o <<"1","2">>
AwbSpaceAfter == Awb10 \o <<" ">>
AwbSpaceBefore == <<" ">> \o Awb10
AwbLetter == Awb10 \o <<"A">>
AwbDash == <<"1","2","3","4","5","-","6","7","8","9","0">>
Shopee == <<"S","h","o","p","e","e","-","8","8","2">>
Api == <<"A","P","I","7">>
TotalText == <<"T","o","t","a","l">>
TotalUpper == <<"T","O","T","A","L">>
Note == <<"n","o","t","e">>
Fuel == <<"f","u","e","l">>
Abc == <<"a","b","c">>
Kg4 == <<"4">>
Kg25 == <<"2",".","5">>
Kg1 == <<"1">>
Rp1000 == <<"R","p"," ","1",",","0","0","0">>
Rp500 == <<"5","0","0">>

\* ---------------------------------------------------------------------
\* Dates: a target date is a day of one month (the sheet of that month)
\* ---------------------------------------------------------------------
LastDay == 6
Days == 5..LastDay

\* Number.prototype.toString of a day of month
dayToString(d) ==
  IF d < 10 THEN <<Digits[d + 1]>>
  ELSE <<Digits[(d \div 10) + 1], Digits[(d % 10) + 1]>>

\* String.prototype.padStart(2, '0')
padStart2(s) == IF Len(s) < 2 THEN <<"0">> \o s ELSE s

\* targetDate.toISOString().split('T')[0], for a day of August 2025
isoDate(d) == <<"2","0","2","5","-","0","8","-">> \o padStart2(dayToString(d))

\* ---------------------------------------------------------------------
\* server.js: the date parameters of a request
\* ---------------------------------------------------------------------
\* /^\d{4}-\d{2}-\d{2}$/.test(param)
dateRegex(param) ==
  /\ Len(param) = 10
  /\ \A k \in {1, 2, 3, 4, 6, 7, 9, 10} : IsDigit(param[k])
  /\ param[5] = "-"
  /\ param[8] = "-"

yearOf(param) == DigitsValue(SubSeq(param, 1, 4), 0)
monthOf(param) == DigitsValue(SubSeq(param, 6, 7), 0)
dayOf(param) == DigitsValue(SubSeq(param, 9, 10), 0)

isLeapYear(y) == (y % 4 = 0 /\ y % 100 # 0) \/ y % 400 = 0

DaysInMonth(y, m) ==
  IF m = 2 THEN (IF isLeapYear(y) THEN 29 ELSE 28)
  ELSE IF m \in {4, 6, 9, 11} THEN 30 ELSE 31

\* a Date whose time value is NaN
InvalidDate == [valid |-> FALSE, year |-> 0, month |-> 0, day |-> 0]

MkDate(y, m, d) == [valid |-> TRUE, year |-> y, month |-> m, day |-> d]

\* a day number past the end of its month, carried into the next month
carryDate(y, m, d) ==
  IF m = 12 THEN MkDate(y + 1, 1, d - DaysInMonth(y, m))
  ELSE MkDate(y, m + 1, d - DaysInMonth(y, m))

\* new Date(param) for a param that passed dateRegex: the dates the
\* constructor can return.  A month outside 01..12 or a day outside 01..31
\* gives an invalid Date.  A day of 29..31 that its month does not have is
\* not a date of the ISO format, and what the constructor makes of such a
\* string is left to the engine: an invalid Date, or the day carried into
\* the next month.
NewDate(param) ==
  IF ~dateRegex(param) THEN {InvalidDate}
  ELSE LET y == yearOf(param)
           m == monthOf(param)
           d == dayOf(param)
       IN IF m \notin 1..12 \/ d \notin 1..31 THEN {InvalidDate}
          ELSE IF d <= DaysInMonth(y, m) THEN {MkDate(y, m, d)}
          ELSE {InvalidDate, carryDate(y, m, d)}

\* startDateObj > endDateObj
dateAfter(a, b) ==
  \/ a.year > b.year
  \/ a.year = b.year /\ a.month > b.month
  \/ a.year = b.year /\ a.month = b.month /\ a.day > b.day

\* ---------------------------------------------------------------------
\* Date objects: a time value, read in the time zone of the process
\* ---------------------------------------------------------------------
\* the time value of new Date('YYYY-MM-DD'), midnight UTC of that day, in
\* hours since the start of day 0 of the month
getTime(date) == 24 * date.day

\* a time zone: the hours that local time is ahead of UTC, before the
\* instant `at` and from it on (the same hours when the zone has one offset)
Zone(before, at, after) == [before |-> before, at |-> at, after |-> after]
Utc == Zone(0, 0, 0)

offsetAt(z, t) == IF t < z.at THEN z.before ELSE z.after

\* Date.prototype.getDate: the day of month in local time
getDate(z, t) == (t + offsetAt(z, t)) \div 24

\* Date.prototype.toISOString: the day of month in UTC
utcDate(t) == t \div 24

\* the time value of a local time: of two instants with that local time the
\* earlier one, and the offset before the change for a local time that the
\* change skips
utcOf(z, local) ==
  IF local - z.before < z.at THEN local - z.before
  ELSE IF local - z.after >= z.at THEN local - z.after
  ELSE local - z.before

\* currentDate.setDate(currentDate.getDate() + 1): the same local time on
\* the next local day
setDateNext(z, t) == utcOf(z, (t + offsetAt(z, t)) + 24)

\* ---------------------------------------------------------------------
\* Rows of the three tables, by sheet column
\* ---------------------------------------------------------------------
CargoRow(b, d, g, h, i) ==
  [B |-> b, D |-> d, G |-> g, H |-> h, I |-> i,
   K |-> Empty, L |-> Empty, M |-> Empty, N |-> Empty, O |-> Empty, P |-> Empty]

ExpressRow(ad, af, ak, am) ==
  [AD |-> ad, AF |-> af, AK |-> ak, AM |-> am, AO |-> Empty, AQ |-> Empty]

ExpenseRow(b, d, m) == [B |-> b, C |-> Empty, D |-> d, M |-> m]

ExpressCells(row) == <<row.AD, row.AF, row.AK, row.AM, row.AO, row.AQ>>

\* ---------------------------------------------------------------------
\* ReportService.getCargoData
\* ---------------------------------------------------------------------
CargoStartRow == 13
ExpressStartRow == 9
FallbackEndRow == 300

\* variant: without the heading the block ends with the rows that were read
RECURSIVE findMarkerNoFallback(_, _)
findMarkerNoFallback(searchData, i) ==
  IF i >= Len(searchData) THEN CargoStartRow + Len(searchData) - 1
  ELSE LET cellValue == searchData[i + 1]
       IN IF Truthy(cellValue) /\ includes(toUpperCase(cellValue), Marker)
          THEN CargoStartRow + i - 1
          ELSE findMarkerNoFallback(searchData, i + 1)

\* variant: the heading is found in capital letters only
RECURSIVE findMarkerCaseSensitive(_, _)
findMarkerCaseSensitive(searchData, i) ==
  IF i >= Len(searchData) THEN FallbackEndRow
  ELSE LET cellValue == searchData[i + 1]
       IN IF Truthy(cellValue) /\ includes(cellValue, Marker)
          THEN CargoStartRow + i - 1
          ELSE findMarkerCaseSensitive(searchData, i + 1)

\* the scan of B13:B300 for the PENGELUARAN row
RECURSIVE findMarker(_, _)
findMarker(searchData, i) ==
  IF i >= Len(searchData) THEN FallbackEndRow
  ELSE LET cellValue == searchData[i + 1]
       IN IF Truthy(cellValue) /\ includes(toUpperCase(cellValue), Marker)
          THEN CargoStartRow + i - 1
          ELSE findMarker(searchData, i + 1)

findEndRow(searchData) == findMarker(searchData, 0)

\* variant: a cell of white space counts as a label
nextCurrentDateNoTrim(currentDate, dateValue, todayDay) ==
  IF Truthy(dateValue)
  THEN IF dateValue = todayDay THEN todayDay ELSE Null
  ELSE currentDate

\* variant: the label of another day does not end the day
nextCurrentDateNoClose(currentDate, dateValue, todayDay) ==
  IF Truthy(dateValue) /\ trim(dateValue) # Empty /\ dateValue = todayDay
  THEN todayDay
  ELSE currentDate

\* one step of the day state: the value of currentDate after a row
nextCurrentDate(currentDate, dateValue, todayDay) ==
  IF Truthy(dateValue) /\ trim(dateValue) # Empty
  THEN IF dateValue = todayDay THEN todayDay ELSE Null
  ELSE currentDate

\* variant: the scan stops at the row that ends the day
RECURSIVE collectCargoFirstBlock(_, _, _, _, _)
collectCargoFirstBlock(rows, i, currentDate, todayDay, acc) ==
  IF i > Len(rows) THEN acc
  ELSE LET cur == nextCurrentDate(currentDate, rows[i].B, todayDay)
       IN IF cur # todayDay /\ acc # <<>> THEN acc
          ELSE collectCargoFirstBlock(rows, i + 1, cur, todayDay,
                       IF cur = todayDay THEN Append(acc, i) ELSE acc)

\* cargoData.forEach: the indices of the rows pushed to todayCargoRows
RECURSIVE collectCargo(_, _, _, _, _)
collectCargo(rows, i, currentDate, todayDay, acc) ==
  IF i > Len(rows) THEN acc
  ELSE LET cur == nextCurrentDate(currentDate, rows[i].B, todayDay)
       IN collectCargo(rows, i + 1, cur, todayDay,
                       IF cur = todayDay THEN Append(acc, i) ELSE acc)

cargoSegment(rows, todayDay) == collectCargo(rows, 1, Null, todayDay, <<>>)

isOnlineAwb(awb) ==
  LET awbString == toLowerCase(awb)
  IN \/ includes(awbString, <<"t","i","k","t","o","k">>)
     \/ includes(awbString, <<"s","h","o","p","e","e">>)
     \/ includes(awbString, <<"a","p","i">>)

\* variant: white space around the identifier is dropped before the match
isNumericAwbTrimmed(awb) ==
  Len(trim(awb)) >= 10 /\ \A k \in DOMAIN trim(awb) : IsDigit(trim(awb)[k])

\* awb.toString().match(/^\d{10,}$/)
isNumericAwb(awb) == Len(awb) >= 10 /\ \A k \in DOMAIN awb : IsDigit(awb[k])

isCountedAwb(awb) ==
  Truthy(awb) /\ trim(awb) # Empty /\ toLowerCase(awb) # toLowerCase(TotalText)

ZeroCargo ==
  [totalAWB |-> 0, onlineAWBs |-> <<>>, totalKg |-> Num(0),
   totalOnlineKg |-> Num(0), totalTunai |-> Num(0), totalTfMandiri |-> Num(0),
   totalTfBca |-> Num(0), totalDfod |-> Num(0), totalPacking |-> Num(0)]

\* the online branch: what is added to totalOnlineKg for one row.
\* src/services/reportService.js adds kgValue; the ReportService that also
\* serves ranges adds kgValue and secondKGValue, each NaN replaced by 0.
safe(v) == IF isNaN(v) THEN Num(0) ELSE v

\* variant: the second weight is left out
onlineKgOfFirstOnly(variant, row) ==
  IF variant = "range" THEN safe(numberOf(row.H)) ELSE numberOf(row.H)

onlineKgOf(variant, row) ==
  IF variant = "range"
  THEN Plus(safe(numberOf(row.H)), safe(numberOf(row.G)))
  ELSE numberOf(row.H)

\* the regular branch: what is added to totalAWB and totalKg for one row
regularOf(t, row) ==
  [t EXCEPT !.totalAWB = @ + 1, !.totalKg = Plus(@, numberOf(row.H))]

\* variant: an online row is counted as a regular parcel too
onlineOfAlsoRegular(variant, t, row) ==
  regularOf([t EXCEPT !.onlineAWBs = Append(@, row.D),
                      !.totalOnlineKg = Plus(@, onlineKgOf(variant, row))], row)

onlineOf(variant, t, row) ==
  [t EXCEPT !.onlineAWBs = Append(@, row.D),
            !.totalOnlineKg = Plus(@, onlineKgOf(variant, row))]

\* variant: the payments of a row that is neither online nor regular are
\* left out
accumulateCargoClassifiedOnly(variant, t, row) ==
  IF isCountedAwb(row.D) /\ (isOnlineAwb(row.D) \/ isNumericAwb(row.D))
  THEN LET paid == [t EXCEPT
                 !.totalTunai = Plus(@, numberOf(row.I)),
                 !.totalTfMandiri = Plus(@, Plus(numberOf(row.K), numberOf(row.L))),
                 !.totalTfBca = Plus(@, numberOf(row.M)),
                 !.totalDfod = Plus(@, numberOf(row.O)),
                 !.totalPacking = Plus(@, numberOf(row.P))]
       IN IF isOnlineAwb(row.D) THEN onlineOf(variant, paid, row)
          ELSE regularOf(paid, row)
  ELSE t

\* the body of todayCargoRows.forEach for one entry
accumulateCargo(variant, t, row) ==
  IF isCountedAwb(row.D)
  THEN LET paid == [t EXCEPT
                 !.totalTunai = Plus(@, numberOf(row.I)),
                 !.totalTfMandiri = Plus(@, Plus(numberOf(row.K), numberOf(row.L))),
                 !.totalTfBca = Plus(@, numberOf(row.M)),
                 !.totalDfod = Plus(@, numberOf(row.O)),
                 !.totalPacking = Plus(@, numberOf(row.P))]
       IN IF isOnlineAwb(row.D) THEN onlineOf(variant, paid, row)
          ELSE IF isNumericAwb(row.D) THEN regularOf(paid, row)
          ELSE paid
  ELSE t

RECURSIVE foldCargo(_, _, _, _, _)
foldCargo(variant, rows, seg, k, t) ==
  IF k > Len(seg) THEN t
  ELSE foldCargo(variant, rows, seg, k + 1, accumulateCargo(variant, t, rows[seg[k]]))

\* Array.prototype.join(' ')
RECURSIVE join(_, _)
join(list, sep) ==
  IF list = <<>> THEN <<>>
  ELSE IF Len(list) = 1 THEN list[1]
  ELSE list[1] \o sep \o join(Tail(list), sep)

cargoResult(t) ==
  [totalAWB |-> t.totalAWB,
   totalAWBOnline |-> IF Len(t.onlineAWBs) > 0 THEN join(t.onlineAWBs, <<" ">>) ELSE TBD,
   totalTonase |-> t.totalKg,
   totalTonaseOnline |-> t.totalOnlineKg,
   totalTunai |-> t.totalTunai,
   totalTfMandiri |-> t.totalTfMandiri,
   totalTfBca |-> t.totalTfBca,
   totalDfod |-> t.totalDfod,
   totalPacking |-> t.totalPacking]

DefaultCargo ==
  [totalAWB |-> 0, totalAWBOnline |-> TBD, totalTonase |-> Num(0),
   totalTonaseOnline |-> Num(0), totalTunai |-> Num(0), totalTfMandiri |-> Num(0),
   totalTfBca |-> Num(0), totalDfod |-> Num(0), totalPacking |-> Num(0)]

\* ---------------------------------------------------------------------
\* ReportService.getExpressData
\* ---------------------------------------------------------------------
\* variant: only the date cell is searched for 'total'
hasTotalFirstCell(row) ==
  Truthy(row.AD) /\ includes(toLowerCase(row.AD), toLowerCase(TotalText))

hasTotal(row) ==
  \E k \in DOMAIN ExpressCells(row) :
     /\ Truthy(ExpressCells(row)[k])
     /\ includes(toLowerCase(ExpressCells(row)[k]), toLowerCase(TotalText))

hasPayment(row) ==
  Truthy(row.AK) \/ Truthy(row.AM) \/ Truthy(row.AO) \/ Truthy(row.AQ)

\* variant: a row with 'total' in a cell is skipped before its date cell
\* is looked at
RECURSIVE collectExpressSkipFirst(_, _, _, _, _)
collectExpressSkipFirst(rows, i, currentDate, todayDay, acc) ==
  IF i > Len(rows) THEN acc
  ELSE IF currentDate = todayDay /\ hasTotal(rows[i])
  THEN collectExpressSkipFirst(rows, i + 1, currentDate, todayDay,
         [acc EXCEPT !.seg = Append(@, i)])
  ELSE LET cur == nextCurrentDate(currentDate, rows[i].AD, todayDay)
           in == cur = todayDay
           push == in /\ ~hasTotal(rows[i]) /\ hasPayment(rows[i])
       IN collectExpressSkipFirst(rows, i + 1, cur, todayDay,
            [seg |-> IF in THEN Append(acc.seg, i) ELSE acc.seg,
             rows |-> IF push THEN Append(acc.rows, i) ELSE acc.rows])

\* expressData.forEach: seg holds the rows met while the day state is the
\* target day, rows the rows pushed to todayExpressRows
RECURSIVE collectExpress(_, _, _, _, _)
collectExpress(rows, i, currentDate, todayDay, acc) ==
  IF i > Len(rows) THEN acc
  ELSE LET cur == nextCurrentDate(currentDate, rows[i].AD, todayDay)
           in == cur = todayDay
           push == in /\ ~hasTotal(rows[i]) /\ hasPayment(rows[i])
       IN collectExpress(rows, i + 1, cur, todayDay,
            [seg |-> IF in THEN Append(acc.seg, i) ELSE acc.seg,
             rows |-> IF push THEN Append(acc.rows, i) ELSE acc.rows])

expressSegment(rows, todayDay) ==
  collectExpress(rows, 1, Null, todayDay, [seg |-> <<>>, rows |-> <<>>])

accumulateExpress(t, row) ==
  [t EXCEPT !.totalTunaiExpress = Plus(@, numberOf(row.AK)),
            !.totalTfMandiriExpress = Plus(@, numberOf(row.AM)),
            !.totalTfBcaExpress = Plus(@, numberOf(row.AO)),
            !.totalPackingExpress = Plus(@, numberOf(row.AQ))]

DefaultExpress ==
  [totalAWBExpress |-> 0, totalTunaiExpress |-> Num(0),
   totalTfMandiriExpress |-> Num(0), totalTfBcaExpress |-> Num(0),
   totalPackingExpress |-> Num(0)]

RECURSIVE foldExpress(_, _, _, _)
foldExpress(rows, pushed, k, t) ==
  IF k > Len(pushed) THEN t
  ELSE foldExpress(rows, pushed, k + 1, accumulateExpress(t, rows[pushed[k]]))

expressResult(rows, pushed) ==
  foldExpress(rows, pushed, 1, [DefaultExpress EXCEPT !.totalAWBExpress = Len(pushed)])

\* ---------------------------------------------------------------------
\* ReportService.getPengeluaranData
\* ---------------------------------------------------------------------
DefaultPengeluaran == [totalPengeluaran |-> Num(0), itemsWithoutPrice |-> <<>>]

\* variant: only the zero-padded day is matched
accumulatePengeluaranPaddedOnly(t, row, targetDay, targetDayPadded) ==
  IF Truthy(row.B) /\ row.B = targetDayPadded
     /\ Truthy(row.D) /\ trim(row.D) # Empty
  THEN IF Truthy(row.M) /\ trim(row.M) # Empty
       THEN [t EXCEPT !.totalPengeluaran = Plus(@, parseFloat(stripNonNumeric(row.M)))]
       ELSE [t EXCEPT !.itemsWithoutPrice = Append(@, trim(row.D))]
  ELSE t

accumulatePengeluaran(t, row, targetDay, targetDayPadded) ==
  IF Truthy(row.B) /\ (row.B = targetDay \/ row.B = targetDayPadded)
     /\ Truthy(row.D) /\ trim(row.D) # Empty
  THEN IF Truthy(row.M) /\ trim(row.M) # Empty
       THEN [t EXCEPT !.totalPengeluaran = Plus(@, parseFloat(stripNonNumeric(row.M)))]
       ELSE [t EXCEPT !.itemsWithoutPrice = Append(@, trim(row.D))]
  ELSE t

RECURSIVE foldPengeluaran(_, _, _, _)
foldPengeluaran(rows, k, d, t) ==
  IF k > Len(rows) THEN t
  ELSE foldPengeluaran(rows, k + 1, d,
         accumulatePengeluaran(t, rows[k], dayToString(d), padStart2(dayToString(d))))

pengeluaranResult(rows, d) == foldPengeluaran(rows, 1, d, DefaultPengeluaran)

\* ---------------------------------------------------------------------
\* AttendanceDetector.getTodayAttendance
\* ---------------------------------------------------------------------
Off == <<"O", "f", "f">>

normaliseOff(t) == IF Truthy(t) /\ toLowerCase(t) = toLowerCase(Off) THEN Off ELSE t

\* variant: an out-time without an in-time stays where it is
attendanceOfNoSwap(emp) ==
  LET inTime == normaliseOff(emp.inTime)
      outTime == normaliseOff(emp.outTime)
  IN [name |-> emp.name, inTime |-> inTime, outTime |-> outTime,
      isPresent |-> Truthy(inTime) \/ Truthy(outTime)]

\* one employee row; Empty stands for null
attendanceOf(emp) ==
  LET in0 == normaliseOff(emp.inTime)
      out0 == normaliseOff(emp.outTime)
      swap == ~Truthy(in0) /\ Truthy(out0) /\ out0 # Off
      inTime == IF swap THEN out0 ELSE in0
      outTime == IF swap THEN Empty ELSE out0
  IN [name |-> emp.name, inTime |-> inTime, outTime |-> outTime,
      isPresent |-> Truthy(inTime) \/ Truthy(outTime)]

\* employee.row[dateColumnIndex] and [dateColumnIndex + 1]: the cells of an
\* employee in the columns of day d
cellsOn(emp, d) ==
  [name |-> emp.name,
   inTime |-> IF d \in emp.days THEN emp.inTime ELSE Empty,
   outTime |-> IF d \in emp.days THEN emp.outTime ELSE Empty]

getTodayAttendance(emps, today) ==
  [k \in DOMAIN emps |-> attendanceOf(cellsOn(emps[k], today))]

\* generateDailyReport: the present employees, with '-' for a missing time
Dash == <<"-">>

presentOnly(att) ==
  LET keep(a) == a.isPresent
      shown(a) == [name |-> a.name,
                   inTime |-> IF Truthy(a.inTime) THEN a.inTime ELSE Dash,
                   outTime |-> IF Truthy(a.outTime) THEN a.outTime ELSE Dash]
      kept == SelectSeq(att, keep)
  IN [k \in DOMAIN kept |-> shown(kept[k])]

\* ---------------------------------------------------------------------
\* The sheets of the model
\* ---------------------------------------------------------------------
RECURSIVE SeqsUpTo(_, _)
SeqsUpTo(S, n) ==
  IF n = 0 THEN {<<>>}
  ELSE LET shorter == SeqsUpTo(S, n - 1)
       IN shorter \cup {Append(q, r) : q \in {t \in shorter : Len(t) = n - 1}, r \in S}

LabelCells == {Empty, Blank, Label05, Label06}

\* rows that differ in their date label only
SplitRows == {CargoRow(b, Awb10, Empty, Kg25, Rp1000) : b \in LabelCells}

\* rows that differ in identifier, weights and cash
ClassRows ==
  { CargoRow(Label05, Awb10, Empty, Kg25, Rp1000),
    CargoRow(Empty, Awb10, Kg1, Kg1, Empty),
    CargoRow(Label05, Awb10, Empty, Abc, Abc),
    CargoRow(Empty, Shopee, Kg1, Kg4, Rp500),
    CargoRow(Label05, Api, Abc, Abc, Empty),
    CargoRow(Empty, TotalUpper, Empty, Kg4, Rp1000),
    CargoRow(Empty, Awb9, Empty, Kg4, Blank),
    CargoRow(Empty, Empty, Empty, Kg4, Rp500) }

\* rows of one day that differ in the identifier only
AwbRows ==
  {CargoRow(Label05, id, Empty, Kg4, Rp500) :
     id \in {Awb10, Awb12, Awb9, AwbSpaceAfter, AwbSpaceBefore, AwbLetter, AwbDash}}
AwbGrids ==
  {<<r>> : r \in AwbRows}
  \cup {[k \in 1..7 |->
          CargoRow(Label05,
                   <<Awb10, Awb9, AwbSpaceAfter, Awb12, AwbSpaceBefore, AwbLetter,
                     AwbDash>>[k],
                   Empty, Kg4, Rp500)]}

\* a cargo row with its payment columns K, L, M, O and P filled
Paid(row, k, l, m, o, p) ==
  [row EXCEPT !.K = k, !.L = l, !.M = m, !.O = o, !.P = p]

\* rows that differ in identifier and carry every payment
PayRows ==
  { Paid(CargoRow(Label05, Note, Empty, Kg4, Rp500), Rp1000, Rp500, Kg25, Kg4, Kg1),
    Paid(CargoRow(Empty, TotalText, Empty, Kg4, Rp500), Rp1000, Rp500, Kg25, Kg4, Kg1),
    Paid(CargoRow(Empty, Blank, Empty, Kg4, Rp500), Rp1000, Rp500, Kg25, Kg4, Kg1),
    Paid(CargoRow(Label05, Shopee, Empty, Kg4, Rp1000), Empty, Kg1, Rp500, Empty, Kg1),
    Paid(CargoRow(Empty, Awb10, Empty, Kg25, Empty), Rp500, Empty, Empty, Rp1000, Empty) }

ExpressSplitRows == {ExpressRow(ad, Empty, Rp500, Empty) : ad \in LabelCells}

ExpressClassRows ==
  { ExpressRow(Label05, Empty, Rp500, Empty),
    ExpressRow(Label06, Empty, Rp500, Empty),
    ExpressRow(Empty, Empty, Rp1000, Rp500),
    ExpressRow(Blank, Empty, Empty, Empty),
    ExpressRow(Empty, TotalUpper, Rp1000, Empty),
    ExpressRow(TotalUpper, Empty, Rp1000, Empty),
    ExpressRow(Empty, Note, Abc, Empty),
    ExpressRow(Empty, Empty, Blank, Empty),
    ExpressRow(Empty, Empty, TotalText, Rp500),
    [ExpressRow(Empty, Empty, Empty, Empty) EXCEPT !.AO = Rp1000, !.AQ = Kg1] }

\* express blocks of one day with summary rows in the middle
ExpressTotalGrids ==
  { <<ExpressRow(Label05, Empty, Rp500, Empty),
      ExpressRow(TotalUpper, Empty, Rp1000, Empty),
      ExpressRow(Empty, Empty, Rp500, Empty)>>,
    <<ExpressRow(Label05, Empty, Rp500, Empty),
      ExpressRow(Empty, TotalText, Rp1000, Empty),
      ExpressRow(Empty, Empty, Rp500, Empty)>>,
    <<ExpressRow(Label05, Empty, Rp500, Empty),
      ExpressRow(Empty, TotalText, Rp1000, Empty),
      ExpressRow(Empty, Empty, Rp500, Empty),
      ExpressRow(TotalUpper, Empty, Rp1000, Empty),
      ExpressRow(Empty, Empty, Rp500, Empty),
      ExpressRow(Label05, TotalUpper, Empty, Empty),
      ExpressRow(Empty, Empty, Empty, Rp500)>> }

ExpenseRows ==
  { ExpenseRow(Label5, Fuel, Empty),
    ExpenseRow(Label05, Fuel, Rp500),
    ExpenseRow(Empty, Fuel, Rp500),
    ExpenseRow(Label06, Note, Abc),
    ExpenseRow(Label05, Blank, Rp500),
    ExpenseRow(Label05, Note, Blank) }

\* employee rows: the in and out cells, and the days whose columns hold them
Ani == [name |-> <<"A","n","i">>, inTime |-> <<"8">>, outTime |-> <<"1","7">>,
        days |-> Days]
Budi == [name |-> <<"B","u","d","i">>, inTime |-> Empty, outTime |-> <<"1","7">>,
         days |-> {5}]
Cici == [name |-> <<"C","i","c","i">>, inTime |-> <<"o","f","f">>, outTime |-> Empty,
         days |-> Days]
Dedi == [name |-> <<"D","e","d","i">>, inTime |-> Empty, outTime |-> Empty,
         days |-> Days]
Eka == [name |-> <<"E","k","a">>, inTime |-> <<"9">>, outTime |-> Empty,
        days |-> Days \ {5}]

\* the attendance block: whether column B holds the CARGO heading, and the
\* employee rows with their in/out cells of the target date
AttendanceBlock == [cargoHeading |-> TRUE, emps |-> <<Ani, Budi, Cici, Dedi, Eka>>]
\* a block with an employee whose only cell is 'OFF' in the out column and
\* one whose only cell is a space
Fani == [name |-> <<"F","a","n","i">>, inTime |-> Empty, outTime |-> <<"O","F","F">>,
         days |-> Days]
Gita == [name |-> <<"G","i","t","a">>, inTime |-> Blank, outTime |-> Empty,
         days |-> Days]
OffBlock == [cargoHeading |-> TRUE, emps |-> <<Fani, Dedi, Budi, Gita, Ani>>]
NoAttendanceBlock == [cargoHeading |-> FALSE, emps |-> <<>>]

BaseCargo == <<CargoRow(Label05, Awb10, Empty, Kg25, Rp1000),
               CargoRow(Empty, Shopee, Kg1, Kg4, Rp500)>>
BaseExpress == <<ExpressRow(Label05, Empty, Rp500, Empty)>>
BaseExpense == <<ExpenseRow(Label5, Fuel, Rp500)>>

\* cargo blocks that end at the PENGELUARAN heading
MarkerRow == CargoRow(Marker, Empty, Empty, Empty, Empty)
\* the heading in another letter case, inside a longer text
MarkerTitle == <<"3","."," ","P","e","n","g","e","l","u","a","r","a","n">>
MarkerTitleRow == CargoRow(MarkerTitle, Empty, Empty, Empty, Empty)
MarkerGrids ==
  {BaseCargo \o <<MarkerRow>>, BaseCargo \o <<MarkerRow>> \o BaseCargo,
   BaseCargo \o <<MarkerTitleRow>> \o BaseCargo,
   <<BaseCargo[1], MarkerTitleRow, MarkerRow, BaseCargo[1]>>}
\* an express block that goes on below the row of the heading
LongExpress ==
  <<ExpressRow(Label05, Empty, Rp500, Empty)>>
    \o [k \in 1..7 |-> ExpressRow(Empty, Empty, Rp500, Empty)]

MkSheet(c, e, p, a) == [cargo |-> c, express |-> e, pengeluaran |-> p, att |-> a]

BaseSheet == MkSheet(BaseCargo, BaseExpress, BaseExpense, AttendanceBlock)
EmptySheet == MkSheet(<<>>, <<>>, <<>>, NoAttendanceBlock)

\* a sheet with entries on the first two days in all three tables
TwoDayCargo ==
  BaseCargo \o
  <<Paid(CargoRow(Label06, Api, Kg1, Kg4, Rp500), Rp1000, Empty, Rp500, Kg4, Kg1),
    CargoRow(Empty, Awb10, Empty, Kg1, Rp1000)>>
TwoDayExpress ==
  <<ExpressRow(Label05, Empty, Rp500, Empty), ExpressRow(Label06, Empty, Rp1000, Rp500)>>
TwoDayExpense ==
  <<ExpenseRow(Label5, Fuel, Rp500), ExpenseRow(Label06, Note, Empty),
    ExpenseRow(Label06, Fuel, Rp1000)>>
TwoDaySheet == MkSheet(TwoDayCargo, TwoDayExpress, TwoDayExpense, AttendanceBlock)

\* a sheet with cells that hold text where an amount is expected
TextCargo ==
  <<CargoRow(Label05, Awb10, Empty, Abc, Abc), CargoRow(Label06, Awb10, Empty, Kg1, Rp500)>>
TextExpense == <<ExpenseRow(Label06, Note, Abc)>>
TextSheet == MkSheet(TextCargo, TwoDayExpress, TextExpense, AttendanceBlock)

\* the data source per day: "up" (every read succeeds), "down" (every read
\* fails) or "flaky" (a read may fail)
AllDays(mode) == [d \in Days |-> mode]

\* the days of the next month that a carried day number can name
CarryDays == 1..3
AllDates(mode) == [d \in Days \cup CarryDays |-> mode]

DailyRequests == {[kind |-> "daily", date |-> isoDate(d)] : d \in Days}
RangeRequests ==
  {[kind |-> "range", startDate |-> isoDate(ab[1]), endDate |-> isoDate(ab[2])] :
     ab \in {days \in Days \X Days : days[1] <= days[2]}}

\* requests for today's report, at 03:00 UTC and at 20:00 UTC of a day
TodayRequests ==
  {[kind |-> "today", now |-> 24 * d + h] : d \in Days, h \in {3, 20}}

\* date parameters that are not dates
Unpadded == <<"2","0","2","5","-","8","-","5">>
DayFirst == <<"0","5","-","0","8","-","2","0","2","5">>
Month13 == <<"2","0","2","5","-","1","3","-","0","5">>
Day00 == <<"2","0","2","5","-","0","8","-","0","0">>
Feb30 == <<"2","0","2","5","-","0","2","-","3","0">>

BadParams == {Unpadded, DayFirst, Month13, Day00}

BadDailyRequests ==
  {[kind |-> "daily", date |-> p] : p \in BadParams \cup {Feb30}}
BadRangeRequests ==
  {[kind |-> "range", startDate |-> a, endDate |-> b] :
     a \in BadParams \cup {isoDate(LastDay)}, b \in BadParams \cup {isoDate(5)}}

Input(sh, n, bd, rq) == [sheet |-> sh, net |-> n, build |-> bd, req |-> rq]

\* the sheets, data source states, builds and requests of the model
Inputs ==
  \* cargo blocks that differ in their labels
  {Input(MkSheet(c, BaseExpress, BaseExpense, AttendanceBlock), AllDays("up"), "base", rq) :
     c \in SeqsUpTo(SplitRows, MaxRows) \cup MarkerGrids, rq \in DailyRequests}
  \* the heading above the end of the cargo and express blocks
  \cup {Input(MkSheet(BaseCargo \o <<MarkerTitleRow>> \o BaseCargo, LongExpress,
                      BaseExpense, AttendanceBlock), AllDays("up"), bd, rq) :
     bd \in {"base", "range"}, rq \in DailyRequests}
  \* cargo blocks that differ in the digits and spaces of the identifier
  \cup {Input(MkSheet(c, BaseExpress, BaseExpense, AttendanceBlock), AllDays("up"), bd, rq) :
     c \in AwbGrids, bd \in {"base", "range"}, rq \in DailyRequests}
  \* cargo blocks that differ in identifiers and amounts, in both builds
  \cup {Input(MkSheet(c, BaseExpress, BaseExpense, AttendanceBlock), AllDays("up"), bd, rq) :
     c \in SeqsUpTo(ClassRows, MaxClassRows), bd \in {"base", "range"},
     rq \in DailyRequests}
  \* cargo blocks that differ in their payment columns
  \cup {Input(MkSheet(c, BaseExpress, BaseExpense, AttendanceBlock), AllDays("up"), "base", rq) :
     c \in SeqsUpTo(PayRows, MaxClassRows), rq \in DailyRequests}
  \* express blocks
  \cup {Input(MkSheet(BaseCargo, e, BaseExpense, AttendanceBlock), AllDays("up"), "range", rq) :
     e \in SeqsUpTo(ExpressSplitRows, MaxExpressRows)
             \cup SeqsUpTo(ExpressClassRows, MaxClassRows),
     rq \in DailyRequests}
  \* express blocks with summary rows, in both builds
  \cup {Input(MkSheet(BaseCargo, e, BaseExpense, AttendanceBlock), AllDays("up"), bd, rq) :
     e \in ExpressTotalGrids, bd \in {"base", "range"}, rq \in DailyRequests}
  \* an attendance block with 'OFF' in an out column
  \cup {Input(MkSheet(BaseCargo, BaseExpress, BaseExpense, OffBlock), AllDays("up"), bd, rq) :
     bd \in {"base", "range"}, rq \in DailyRequests}
  \* expense blocks, with and without an attendance block
  \cup {Input(MkSheet(BaseCargo, BaseExpress, p, a), AllDays("up"), "base", rq) :
     p \in SeqsUpTo(ExpenseRows, MaxClassRows),
     a \in {AttendanceBlock, NoAttendanceBlock}, rq \in DailyRequests}
  \* a daily request while reads may fail
  \cup {Input(sh, AllDays("flaky"), bd, rq) :
     sh \in {BaseSheet, EmptySheet}, bd \in {"base", "range"}, rq \in DailyRequests}
  \* a range request while the data source is down on some days
  \cup {Input(sh, n, "range", rq) :
     sh \in {BaseSheet, EmptySheet, TwoDaySheet, TextSheet},
     n \in [Days -> {"up", "down"}],
     rq \in RangeRequests}
  \* requests for today's report
  \cup {Input(sh, AllDays("flaky"), bd, rq) :
     sh \in {BaseSheet}, bd \in {"base", "range"}, rq \in TodayRequests}
  \* requests with date parameters that are not dates
  \cup {Input(BaseSheet, AllDates("up"), bd, rq) :
     bd \in {"base", "range"}, rq \in BadDailyRequests}
  \cup {Input(BaseSheet, AllDates("up"), "range", rq) : rq \in BadRangeRequests}

\* ---------------------------------------------------------------------
\* SheetManager.getSheetData: the rows of a range of the sheet
\* ---------------------------------------------------------------------
Prefix(rows, n) == SubSeq(rows, 1, IF n < Len(rows) THEN n ELSE Len(rows))

\* B13:B300
labelColumn(sh) == [k \in DOMAIN sh.cargo |-> sh.cargo[k].B]
\* A13:R<endRow>
cargoRange(sh, endRow) == Prefix(sh.cargo, endRow - CargoStartRow + 1)
\* AD9:AY<endRow>
expressRange(sh, endRow) == Prefix(sh.express, endRow - ExpressStartRow + 1)

\* ---------------------------------------------------------------------
\* State
\* ---------------------------------------------------------------------
VARIABLES
  sheet,        \* contents of the month's sheet
  net,          \* the data source on each day: "up", "down" or "flaky"
  build,        \* "base": services/reportService.js; "range": the
                \* ReportService with generateRangeReport
  req,          \* the request received
  pc,           \* position of the request between two awaits
  cur,          \* generateRangeReport: currentDate; else the target date
  loc,          \* locals of the running generateDailyReport
  reports,      \* generateRangeReport: reports
  reads,        \* the sheet reads made for the request, with their outcome
  resp,         \* the HTTP response
  instant,      \* the time value of currentDate / targetDate
  zone,         \* the time zone of the server process
  parked,       \* a second request, while it waits for one of its awaits
  cli,          \* the output of the command-line report
  calc          \* a cell on its way through the numeric coercion

vars == <<sheet, net, build, req, pc, cur, loc, reports, reads, resp,
          instant, zone, parked, cli, calc>>

\* what the requests never write
fixed == <<sheet, net, build, zone>>
\* what the handlers of the server never write
aside == <<parked, cli, calc>>

NoResp == [status |-> 0]

NoLoc ==
  [attendanceData |-> <<>>, endRow |-> 0,
   todayCargoRows |-> <<>>, onlineAWBs |-> <<>>, cargoData |-> DefaultCargo,
   segExpress |-> <<>>, todayExpressRows |-> <<>>, expressData |-> DefaultExpress,
   pengeluaranData |-> DefaultPengeluaran]

\* no second request, no run of the command-line report, no cell
NoParked == [pc |-> "none"]
NoCli == [ran |-> FALSE]
NoCalc == [stage |-> "none"]

Init ==
  /\ \E i \in Inputs :
       /\ sheet = i.sheet
       /\ net = i.net
       /\ build = i.build
       /\ req = i.req
  /\ pc = "idle"
  /\ cur = 0
  /\ loc = NoLoc
  /\ reports = <<>>
  /\ reads = {}
  /\ resp = NoResp
  /\ instant = 0
  /\ zone = Utc
  /\ parked = NoParked
  /\ cli = NoCli
  /\ calc = NoCalc

\* the outcomes of a read of the data source
Outcomes ==
  IF cur \notin DOMAIN net THEN {}
  ELSE IF net[cur] = "up" THEN {TRUE}
  ELSE IF net[cur] = "down" THEN {FALSE}
  ELSE BOOLEAN

Read(name, ok) == reads' = reads \cup {[day |-> cur, range |-> name, ok |-> ok]}

\* ---------------------------------------------------------------------
\* ReportService.aggregateReports
\* ---------------------------------------------------------------------
\* value || 0
orZero(v) == IF v.nan THEN Num(0) ELSE v

\* variant: the value of the last report replaces the sum
sumOfLast(vals) == IF vals = <<>> THEN Num(0) ELSE orZero(vals[Len(vals)])

\* the += of one field over the reports
RECURSIVE sumOf(_)
sumOf(vals) ==
  IF vals = <<>> THEN Num(0) ELSE Plus(sumOf(SubSeq(vals, 1, Len(vals) - 1)), orZero(vals[Len(vals)]))

RECURSIVE countOf(_)
countOf(vals) ==
  IF vals = <<>> THEN 0 ELSE countOf(SubSeq(vals, 1, Len(vals) - 1)) + vals[Len(vals)]

\* variant: a day without online identifiers gets an entry too
RECURSIVE onlineEntriesAll(_, _)
onlineEntriesAll(rs, k) ==
  IF k > Len(rs) THEN <<>>
  ELSE <<isoDate(rs[k].date) \o <<":", " ">> \o rs[k].cargo.totalAWBOnline>>
         \o onlineEntriesAll(rs, k + 1)

RECURSIVE onlineEntries(_, _)
onlineEntries(rs, k) ==
  IF k > Len(rs) THEN <<>>
  ELSE LET ids == rs[k].cargo.totalAWBOnline
           rest == onlineEntries(rs, k + 1)
       IN IF Truthy(ids) /\ ids # TBD
          THEN <<isoDate(rs[k].date) \o <<":", " ">> \o ids>> \o rest
          ELSE rest

RECURSIVE unpricedEntries(_, _)
unpricedEntries(rs, k) ==
  IF k > Len(rs) THEN <<>>
  ELSE LET items == rs[k].pengeluaran.itemsWithoutPrice
           rest == unpricedEntries(rs, k + 1)
       IN IF Len(items) > 0
          THEN <<isoDate(rs[k].date) \o <<":", " ">> \o join(items, <<",", " ">>)>> \o rest
          ELSE rest

\* Number.prototype.toString of a natural number
RECURSIVE natToString(_)
natToString(n) ==
  IF n < 10 THEN <<Digits[n + 1]>>
  ELSE natToString(n \div 10) \o <<Digits[(n % 10) + 1]>>

\* (a / n).toFixed(1): the decimal text of a / n with one digit after the
\* point, the nearest one, and the larger one of two that are equally near
\* (for the day counts of the model a / n is such a tie only where it is a
\* double)
toFixed1(a, n) ==
  LET tenths == (20 * a + n) \div (2 * n)
  IN natToString(tenths \div 10) \o <<".">> \o natToString(tenths % 10)

\* the values of averageAttendancePerDay: a string or a number
StringValue(text) == [type |-> "string", value |-> text]
NumberValue(v) == [type |-> "number", value |-> v]

NoOnline == <<"N","o"," ","o","n","l","i","n","e"," ","A","W","B","s"," ","f","o","u","n","d">>

aggregateReports(rs) ==
  LET names == UNION {{rs[k].attendance[j].name : j \in DOMAIN rs[k].attendance} :
                        k \in DOMAIN rs}
      attDays == countOf([k \in DOMAIN rs |-> Len(rs[k].attendance)])
      online == onlineEntries(rs, 1)
  IN [attendance |->
        [totalUniqueEmployees |-> Cardinality(names),
         totalAttendanceDays |-> attDays,
         averageAttendancePerDay |->
           IF Len(rs) > 0 THEN StringValue(toFixed1(attDays, Len(rs)))
           ELSE NumberValue(Num(0))],
      cargo |->
        [totalAWB |-> countOf([k \in DOMAIN rs |-> rs[k].cargo.totalAWB]),
         totalAWBOnline |-> IF Len(online) > 0 THEN online ELSE <<NoOnline>>,
         totalTonase |-> sumOf([k \in DOMAIN rs |-> rs[k].cargo.totalTonase]),
         totalTonaseOnline |-> sumOf([k \in DOMAIN rs |-> rs[k].cargo.totalTonaseOnline]),
         totalTunai |-> sumOf([k \in DOMAIN rs |-> rs[k].cargo.totalTunai]),
         totalTfMandiri |-> sumOf([k \in DOMAIN rs |-> rs[k].cargo.totalTfMandiri]),
         totalTfBca |-> sumOf([k \in DOMAIN rs |-> rs[k].cargo.totalTfBca]),
         totalDfod |-> sumOf([k \in DOMAIN rs |-> rs[k].cargo.totalDfod]),
         totalPacking |-> sumOf([k \in DOMAIN rs |-> rs[k].cargo.totalPacking])],
      express |->
        [totalAWBExpress |-> countOf([k \in DOMAIN rs |-> rs[k].express.totalAWBExpress]),
         totalTunaiExpress |-> sumOf([k \in DOMAIN rs |-> rs[k].express.totalTunaiExpress]),
         totalTfMandiriExpress |-> sumOf([k \in DOMAIN rs |-> rs[k].express.totalTfMandiriExpress]),
         totalTfBcaExpress |-> sumOf([k \in DOMAIN rs |-> rs[k].express.totalTfBcaExpress]),
         totalPackingExpress |-> sumOf([k \in DOMAIN rs |-> rs[k].express.totalPackingExpress])],
      pengeluaran |->
        [totalPengeluaran |-> sumOf([k \in DOMAIN rs |-> rs[k].pengeluaran.totalPengeluaran]),
         allItemsWithoutPrice |-> unpricedEntries(rs, 1)]]

\* ---------------------------------------------------------------------
\* Requests: server.js handlers and the orchestrators of ReportService
\* ---------------------------------------------------------------------
BadRequest(error) == [status |-> 400, success |-> FALSE, error |-> error]

\* GET /api/report/:date: the parameter is validated, and for a date
\* generateDailyReport runs up to its first read
ReportDate(targetDate) ==
  /\ pc = "idle"
  /\ req.kind = "daily"
  /\ IF ~dateRegex(req.date)
     THEN /\ resp' = BadRequest("Invalid date format")
          /\ pc' = "done"
          /\ UNCHANGED <<cur, instant, loc>>
     ELSE IF ~targetDate.valid
     THEN /\ resp' = BadRequest("Invalid date")
          /\ pc' = "done"
          /\ UNCHANGED <<cur, instant, loc>>
     ELSE /\ instant' = getTime(targetDate)
          /\ cur' = getDate(zone, getTime(targetDate))
          /\ loc' = NoLoc
          /\ pc' = "attSearch"
          /\ UNCHANGED resp
  /\ UNCHANGED <<fixed, aside, req, reports, reads>>

\* GET /api/report/today: generateDailyReport(new Date()) runs up to its
\* first read
ReportToday ==
  /\ pc = "idle"
  /\ req.kind = "today"
  /\ instant' = req.now
  /\ cur' = getDate(zone, req.now)
  /\ loc' = NoLoc
  /\ pc' = "attSearch"
  /\ UNCHANGED <<fixed, aside, req, reports, reads, resp>>

\* GET /api/report/range/:startDate/:endDate: the parameters are validated,
\* and for a range generateRangeReport enters its loop and calls
\* generateDailyReport
ReportRange(startDateObj, endDateObj) ==
  /\ pc = "idle"
  /\ build = "range"
  /\ req.kind = "range"
  /\ IF ~dateRegex(req.startDate) \/ ~dateRegex(req.endDate)
     THEN /\ resp' = BadRequest("Invalid date format")
          /\ pc' = "done"
          /\ UNCHANGED <<cur, instant, loc, reports>>
     ELSE IF ~startDateObj.valid \/ ~endDateObj.valid
     THEN /\ resp' = BadRequest("Invalid date")
          /\ pc' = "done"
          /\ UNCHANGED <<cur, instant, loc, reports>>
     ELSE IF dateAfter(startDateObj, endDateObj)
     THEN /\ resp' = BadRequest("Invalid date range")
          /\ pc' = "done"
          /\ UNCHANGED <<cur, instant, loc, reports>>
     ELSE /\ instant' = getTime(startDateObj)
          /\ cur' = getDate(zone, getTime(startDateObj))
          /\ reports' = <<>>
          /\ loc' = NoLoc
          /\ pc' = "attSearch"
          /\ UNCHANGED resp
  /\ UNCHANGED <<fixed, aside, req, reads>>

\* getTodayAttendance: the read of B1:B50 returns or fails.  A failure and
\* the 'CARGO section not found' error are caught by generateDailyReport,
\* which goes on with getCargoData.
AttendanceSearchDone(ok) ==
  /\ pc = "attSearch"
  /\ Read("B1:B50", ok)
  /\ pc' = IF ok /\ sheet.att.cargoHeading THEN "attFetch" ELSE "cargoSearch"
  /\ UNCHANGED <<fixed, aside, req, cur, instant, loc, reports, resp>>

\* getTodayAttendance: the read of the attendance block returns or fails
AttendanceFetchDone(ok) ==
  /\ pc = "attFetch"
  /\ Read("A3:BM", ok)
  /\ loc' = [loc EXCEPT !.attendanceData =
               IF ok THEN presentOnly(getTodayAttendance(sheet.att.emps, cur)) ELSE <<>>]
  /\ pc' = "cargoSearch"
  /\ UNCHANGED <<fixed, aside, req, cur, instant, reports, resp>>

\* variant: a failed read of the cargo table ends the whole report
CargoSearchDoneAbort(ok) ==
  /\ pc = "cargoSearch"
  /\ Read("B13:B300", ok)
  /\ IF ok
     THEN /\ loc' = [loc EXCEPT !.endRow = findEndRow(labelColumn(sheet))]
          /\ pc' = "cargoFetch"
     ELSE /\ loc' = [loc EXCEPT !.cargoData = DefaultCargo]
          /\ pc' = "returned"
  /\ UNCHANGED <<fixed, aside, req, cur, instant, reports, resp>>

\* getCargoData: the read of B13:B300 returns or fails
CargoSearchDone(ok) ==
  /\ pc = "cargoSearch"
  /\ Read("B13:B300", ok)
  /\ IF ok
     THEN /\ loc' = [loc EXCEPT !.endRow = findEndRow(labelColumn(sheet))]
          /\ pc' = "cargoFetch"
     ELSE /\ loc' = [loc EXCEPT !.cargoData = DefaultCargo]
          /\ pc' = "expressSearch"
  /\ UNCHANGED <<fixed, aside, req, cur, instant, reports, resp>>

\* getCargoData: the read of A13:R<endRow> returns or fails
CargoFetchDone(ok) ==
  /\ pc = "cargoFetch"
  /\ Read("A13:R", ok)
  /\ IF ok
     THEN LET cargoData == cargoRange(sheet, loc.endRow)
              todayDay == padStart2(dayToString(cur))
              seg == cargoSegment(cargoData, todayDay)
              t == foldCargo(build, cargoData, seg, 1, ZeroCargo)
          IN loc' = [loc EXCEPT !.todayCargoRows = seg,
                                !.onlineAWBs = t.onlineAWBs,
                                !.cargoData = cargoResult(t)]
     ELSE loc' = [loc EXCEPT !.cargoData = DefaultCargo]
  /\ pc' = "expressSearch"
  /\ UNCHANGED <<fixed, aside, req, cur, instant, reports, resp>>

\* getExpressData: the read of B13:B300 returns or fails
ExpressSearchDone(ok) ==
  /\ pc = "expressSearch"
  /\ Read("B13:B300/express", ok)
  /\ IF ok
     THEN /\ loc' = [loc EXCEPT !.endRow = findEndRow(labelColumn(sheet))]
          /\ pc' = "expressFetch"
     ELSE /\ loc' = [loc EXCEPT !.expressData = DefaultExpress]
          /\ pc' = "pengeluaran"
  /\ UNCHANGED <<fixed, aside, req, cur, instant, reports, resp>>

\* getExpressData: the read of AD9:AY<endRow> returns or fails
ExpressFetchDone(ok) ==
  /\ pc = "expressFetch"
  /\ Read("AD9:AY", ok)
  /\ IF ok
     THEN LET expressData == expressRange(sheet, loc.endRow)
              todayDay == padStart2(dayToString(cur))
              col == expressSegment(expressData, todayDay)
          IN loc' = [loc EXCEPT !.segExpress = col.seg,
                                !.todayExpressRows = col.rows,
                                !.expressData = expressResult(expressData, col.rows)]
     ELSE loc' = [loc EXCEPT !.expressData = DefaultExpress]
  /\ pc' = "pengeluaran"
  /\ UNCHANGED <<fixed, aside, req, cur, instant, reports, resp>>

\* getPengeluaranData: the read of B226:S248 returns or fails;
\* generateDailyReport then has its report
PengeluaranDone(ok) ==
  /\ pc = "pengeluaran"
  /\ Read("B226:S248", ok)
  /\ loc' = [loc EXCEPT !.pengeluaranData =
               IF ok THEN pengeluaranResult(sheet.pengeluaran, cur)
               ELSE DefaultPengeluaran]
  /\ pc' = "returned"
  /\ UNCHANGED <<fixed, aside, req, cur, instant, reports, resp>>

\* the value generateDailyReport returns
dailyReport ==
  [date |-> utcDate(instant), attendance |-> loc.attendanceData, cargo |-> loc.cargoData,
   express |-> loc.expressData, pengeluaran |-> loc.pengeluaranData]

\* GET /api/report/:date: res.json of the report
RespondDaily ==
  /\ pc = "returned"
  /\ req.kind \in {"daily", "today"}
  /\ resp' = [status |-> 200, success |-> TRUE, data |-> dailyReport]
  /\ pc' = "done"
  /\ UNCHANGED <<fixed, aside, req, cur, instant, loc, reports, reads>>

\* generateRangeReport: reports.push, the next day, and after the last day
\* the aggregate and the response
RangeStep ==
  /\ pc = "returned"
  /\ req.kind = "range"
  /\ LET pushed == Append(reports, dailyReport)
     IN /\ reports' = pushed
        /\ instant' = setDateNext(zone, instant)
        /\ cur' = getDate(zone, setDateNext(zone, instant))
        /\ IF setDateNext(zone, instant) <= 24 * dayOf(req.endDate)
           THEN /\ pc' = "attSearch"
                /\ loc' = NoLoc
                /\ UNCHANGED resp
           ELSE /\ pc' = "done"
                /\ UNCHANGED loc
                /\ resp' =
                     IF Len(pushed) = 0
                     THEN [status |-> 500, success |-> FALSE,
                           message |-> "No data available for the specified date range"]
                     ELSE [status |-> 200, success |-> TRUE,
                           data |-> [totalDays |-> Len(pushed),
                                     dailyReports |-> pushed,
                                     aggregated |-> aggregateReports(pushed)]]
  /\ UNCHANGED <<fixed, aside, req, reads>>

Next ==
  \/ /\ req.kind = "daily"
     /\ \E targetDate \in NewDate(req.date) : ReportDate(targetDate)
  \/ /\ req.kind = "range"
     /\ \E startDateObj \in NewDate(req.startDate), endDateObj \in NewDate(req.endDate) :
          ReportRange(startDateObj, endDateObj)
  \/ ReportToday
  \/ \E ok \in Outcomes : AttendanceSearchDone(ok)
  \/ \E ok \in Outcomes : AttendanceFetchDone(ok)
  \/ \E ok \in Outcomes : CargoSearchDone(ok)
  \/ \E ok \in Outcomes : CargoFetchDone(ok)
  \/ \E ok \in Outcomes : ExpressSearchDone(ok)
  \/ \E ok \in Outcomes : ExpressFetchDone(ok)
  \/ \E ok \in Outcomes : PengeluaranDone(ok)
  \/ RespondDaily
  \/ RangeStep

Spec == Init /\ [][Next]_vars
\* ---------------------------------------------------------------------
\* Properties
\* ---------------------------------------------------------------------
ReadOk(name) == [day |-> cur, range |-> name, ok |-> TRUE] \in reads
ReadFailed(name) == [day |-> cur, range |-> name, ok |-> FALSE] \in reads

\* the cargo / express scan of the current day has run
CargoScanned == ReadOk("A13:R")
ExpressScanned == ReadOk("AD9:AY")

cargoGrid == cargoRange(sheet, loc.endRow)
expressGrid == expressRange(sheet, loc.endRow)
todayLabel == padStart2(dayToString(cur))

IsLabel(cell) == trim(cell) # Empty

\* the most recent label at or above row i of a column of date cells
LastLabel(col, i) ==
  LET labelled == {j \in 1..i : IsLabel(col[j])}
  IN IF labelled = {} THEN Null
     ELSE col[CHOOSE j \in labelled : \A k \in labelled : k <= j]

cargoDates == [k \in DOMAIN cargoGrid |-> cargoGrid[k].B]
expressDates == [k \in DOMAIN expressGrid |-> expressGrid[k].AD]

\* C1: in the cargo and express scans a row is collected into the target
\* day's segment if and only if the most recent date cell that is non-empty
\* after trim, at or above the row, equals the zero-padded target day; rows
\* with an empty date cell inherit the state of the row above and rows before
\* the first label are never collected.
C1_SegmentByLastLabel ==
  /\ CargoScanned =>
       \A i \in DOMAIN cargoGrid :
          (i \in Range(loc.todayCargoRows)) <=> (LastLabel(cargoDates, i) = todayLabel)
  /\ ExpressScanned =>
       /\ \A i \in DOMAIN expressGrid :
            (i \in Range(loc.segExpress)) <=> (LastLabel(expressDates, i) = todayLabel)
       /\ Range(loc.todayExpressRows) \subseteq Range(loc.segExpress)

\* a scan with a collected continuation row whose date cell is white space,
\* and a row left out
C1_Witness ==
  /\ CargoScanned
  /\ \E i \in Range(loc.todayCargoRows) : cargoGrid[i].B = Blank
  /\ \E i \in DOMAIN cargoGrid : i \notin Range(loc.todayCargoRows)

\* the target day's label, the label of another day, the target day's label
Reopened(col, i, j, k) ==
  /\ i < j /\ j < k
  /\ col[i] = todayLabel
  /\ IsLabel(col[j]) /\ col[j] # todayLabel
  /\ col[k] = todayLabel

\* C2 as stated: when the target day's label comes back after the label of
\* another day, the rows of the second occurrence are not in the segment.
C2_SecondBlockDropped ==
  /\ CargoScanned =>
       \A i, j, k \in DOMAIN cargoGrid :
          Reopened(cargoDates, i, j, k) => k \notin Range(loc.todayCargoRows)
  /\ ExpressScanned =>
       \A i, j, k \in DOMAIN expressGrid :
          Reopened(expressDates, i, j, k) => k \notin Range(loc.segExpress)

\* C2 (amended): when the target day's label comes back after the label of
\* another day, the row of the second occurrence and its continuation rows
\* are in the segment too: every block labelled with the target day is kept.
C2_SecondBlockKept ==
  /\ CargoScanned =>
       \A i, j, k, m \in DOMAIN cargoGrid :
          /\ Reopened(cargoDates, i, j, k)
          /\ k <= m
          /\ \A n \in (k + 1)..m : ~IsLabel(cargoDates[n])
          => /\ m \in Range(loc.todayCargoRows)
             /\ i \in Range(loc.todayCargoRows)
  /\ ExpressScanned =>
       \A i, j, k, m \in DOMAIN expressGrid :
          /\ Reopened(expressDates, i, j, k)
          /\ k <= m
          /\ \A n \in (k + 1)..m : ~IsLabel(expressDates[n])
          => /\ m \in Range(loc.segExpress)
             /\ i \in Range(loc.segExpress)

\* a cargo scan of the labels 05, 06, 05 for day 5 that counted both blocks
C2_Witness ==
  /\ CargoScanned
  /\ \E i, j, k \in DOMAIN cargoGrid : Reopened(cargoDates, i, j, k)
  /\ loc.cargoData.totalAWB >= 2

\* C3: the rows collected for the target day are collected for no other
\* day: the segments of two distinct days are disjoint.
C3_SegmentsDisjoint ==
  /\ CargoScanned =>
       \A d \in Days \ {cur} :
          Range(loc.todayCargoRows)
            \cap Range(cargoSegment(cargoGrid, padStart2(dayToString(d)))) = {}
  /\ ExpressScanned =>
       \A d \in Days \ {cur} :
          Range(loc.segExpress)
            \cap Range(expressSegment(expressGrid, padStart2(dayToString(d))).seg) = {}

\* a grid holding rows of the target day and rows of another day
C3_Witness ==
  /\ CargoScanned
  /\ loc.todayCargoRows # <<>>
  /\ \E d \in Days \ {cur} : cargoSegment(cargoGrid, padStart2(dayToString(d))) # <<>>

Finite(v) == ~v.nan

CargoFinite(c) ==
  /\ Finite(c.totalTonase) /\ Finite(c.totalTonaseOnline) /\ Finite(c.totalTunai)
  /\ Finite(c.totalTfMandiri) /\ Finite(c.totalTfBca) /\ Finite(c.totalDfod)
  /\ Finite(c.totalPacking)

ExpressFinite(e) ==
  /\ Finite(e.totalTunaiExpress) /\ Finite(e.totalTfMandiriExpress)
  /\ Finite(e.totalTfBcaExpress) /\ Finite(e.totalPackingExpress)

\* C4 as stated: every numeric field of the cargo, express and expense
\* totals returned for a day is a finite number; a non-empty cell without a
\* parseable number adds 0 and never turns a total into NaN.
C4_TotalsFinite ==
  pc \in {"returned", "done"} =>
    /\ CargoFinite(loc.cargoData)
    /\ ExpressFinite(loc.expressData)
    /\ Finite(loc.pengeluaranData.totalPengeluaran)

CargoFailed == ReadFailed("B13:B300") \/ ReadFailed("A13:R")
ExpressFailed == ReadFailed("B13:B300/express") \/ ReadFailed("AD9:AY")
PengeluaranFailed == ReadFailed("B226:S248")

\* the aggregates of the current day when every read succeeds
fullEndRow == findEndRow(labelColumn(sheet))
fullCargoGrid == cargoRange(sheet, fullEndRow)
fullExpressGrid == expressRange(sheet, fullEndRow)
expectedCargo ==
  cargoResult(foldCargo(build, fullCargoGrid,
                        cargoSegment(fullCargoGrid, todayLabel), 1, ZeroCargo))
expectedExpress ==
  expressResult(fullExpressGrid, expressSegment(fullExpressGrid, todayLabel).rows)
expectedPengeluaran == pengeluaranResult(sheet.pengeluaran, cur)

\* C5: whatever reads fail, generateDailyReport returns a day record; a
\* table whose read failed has its all-zero default (cargo: zeros and 'TBD',
\* express: zeros, expense: 0 and no item) and a table whose reads succeeded
\* has exactly the aggregate it has when nothing fails.
C5_FailedTableDefaultsOnly ==
  /\ pc = "returned" =>
       /\ dailyReport.cargo = IF CargoFailed THEN DefaultCargo ELSE expectedCargo
       /\ dailyReport.express = IF ExpressFailed THEN DefaultExpress ELSE expectedExpress
       /\ dailyReport.pengeluaran =
            IF PengeluaranFailed THEN DefaultPengeluaran ELSE expectedPengeluaran
  /\ (pc = "done" /\ req.kind = "daily" /\ reads # {}) =>
       /\ resp.status = 200
       /\ resp.data.cargo = IF CargoFailed THEN DefaultCargo ELSE expectedCargo
       /\ resp.data.express = IF ExpressFailed THEN DefaultExpress ELSE expectedExpress
       /\ resp.data.pengeluaran =
            IF PengeluaranFailed THEN DefaultPengeluaran ELSE expectedPengeluaran

\* a day record whose cargo read alone failed and whose express and expense
\* aggregates are not the defaults
C5_Witness ==
  /\ pc = "returned"
  /\ CargoFailed /\ ~ExpressFailed /\ ~PengeluaranFailed
  /\ dailyReport.cargo = DefaultCargo
  /\ dailyReport.express.totalAWBExpress > 0
  /\ dailyReport.pengeluaran # DefaultPengeluaran

\* a range request whose report was generated
RangeDone == pc = "done" /\ req.kind = "range" /\ reads # {}

\* the days of the range for which a read failed
FailedDays == {r.day : r \in {q \in reads : ~q.ok}}
\* the days of the range for which every read failed
DeadDays == FailedDays \ {r.day : r \in {q \in reads : q.ok}}

ReportedDays(rs) == {rs[k].date : k \in DOMAIN rs}

\* C6 as stated: in a range report a day whose reads fail is left out of
\* dailyReports and of totalDays, the days before it are kept and the range
\* request is still answered.
C6_FailedDayOmitted ==
  RangeDone =>
    /\ resp.status = 200
    /\ ReportedDays(resp.data.dailyReports) \cap DeadDays = {}
    /\ resp.data.totalDays = Cardinality((dayOf(req.startDate)..dayOf(req.endDate)) \ DeadDays)

\* C7 as stated: when no day of the range gives a usable record, in
\* particular when every read of every day fails, generateRangeReport fails
\* with 'No data available for the specified date range'.
C7_NoDataError ==
  (RangeDone /\ \A r \in reads : ~r.ok) =>
    /\ resp.status = 500
    /\ resp.success = FALSE
    /\ resp.message = "No data available for the specified date range"

\* C8 as stated: a daily report request during which every sheet read
\* failed is answered with HTTP 500 and success = false, never with a
\* success-shaped response.
C8_SourceFailureIs500 ==
  (pc = "done" /\ req.kind = "daily" /\ reads # {} /\ \A r \in reads : ~r.ok) =>
    /\ resp.status = 500
    /\ resp.success = FALSE

\* the collected rows of grid that are classified
countedIn(grid, seg) == {i \in Range(seg) : isCountedAwb(grid[i].D)}
onlineIn(grid, rows) == {i \in rows : isOnlineAwb(grid[i].D)}
regularIn(grid, rows) == {i \in rows : isNumericAwb(grid[i].D)}

counted == countedIn(cargoGrid, loc.todayCargoRows)
onlineRows == onlineIn(cargoGrid, counted)

\* C9: every collected cargo row with a non-empty identifier other than
\* 'total' is online, regular or ignored and only one of them: the regular
\* count, the online list and the ignored rows add up to these rows, a
\* marketplace identifier is always online, and no row adds to the regular
\* count or weight and also to the online list or weight.
C9_OneClassPerRow ==
  CargoScanned =>
    LET grid == cargoGrid
        rows == countedIn(grid, loc.todayCargoRows)
        online == onlineIn(grid, rows)
        regular == regularIn(grid, rows)
        ignored == rows \ (online \cup regular)
    IN /\ online \cap regular = {}
       /\ Len(loc.onlineAWBs) = Cardinality(online)
       /\ loc.cargoData.totalAWB = Cardinality(regular)
       /\ loc.cargoData.totalAWB + Len(loc.onlineAWBs) + Cardinality(ignored)
            = Cardinality(rows)
       /\ \A i \in rows :
            LET alone == accumulateCargo(build, ZeroCargo, grid[i])
            IN ~ /\ (alone.totalAWB # 0 \/ alone.totalKg # Num(0))
                 /\ (alone.onlineAWBs # <<>> \/ alone.totalOnlineKg # Num(0))

\* a scan that met an online row and a regular row
C9_Witness ==
  /\ CargoScanned
  /\ Len(loc.onlineAWBs) >= 1
  /\ loc.cargoData.totalAWB >= 1

\* the sum of a sequence of numbers, NaN included
RECURSIVE PlusAll(_)
PlusAll(vals) == IF vals = <<>> THEN Num(0) ELSE Plus(vals[1], PlusAll(Tail(vals)))

\* C10 as stated: the identifier of each online row is appended to the
\* online list, the online weight grows by the value of the row's weight
\* field and by nothing else, and the regular count and weight are untouched.
C10_OnlineWeightIsKg ==
  CargoScanned =>
    LET grid == cargoGrid
        rows == countedIn(grid, loc.todayCargoRows)
        online == onlineIn(grid, rows)
        regular == regularIn(grid, rows)
        InOnline(i) == i \in online
        InRegular(i) == i \in regular
        onlineSeq == SelectSeq(loc.todayCargoRows, InOnline)
        regularSeq == SelectSeq(loc.todayCargoRows, InRegular)
    IN /\ loc.onlineAWBs = [k \in DOMAIN onlineSeq |-> grid[onlineSeq[k]].D]
       /\ loc.cargoData.totalTonaseOnline
            = PlusAll([k \in DOMAIN onlineSeq |-> numberOf(grid[onlineSeq[k]].H)])
       /\ loc.cargoData.totalAWB = Len(regularSeq)
       /\ loc.cargoData.totalTonase
            = PlusAll([k \in DOMAIN regularSeq |-> numberOf(grid[regularSeq[k]].H)])

zeroIfNaN(v) == IF v.nan THEN Num(0) ELSE v

\* C10 (amended): the identifier of each online row is appended to the
\* online list and the regular count and weight are untouched; the online
\* weight grows by the value of the weight field (column H) in
\* services/reportService.js, and in the ReportService that serves ranges by
\* the weight field plus the second weight field (column G), each counted
\* as 0 when it holds no number.
C10_OnlineWeightByBuild ==
  CargoScanned =>
    LET grid == cargoGrid
        rows == countedIn(grid, loc.todayCargoRows)
        online == onlineIn(grid, rows)
        regular == regularIn(grid, rows)
        InOnline(i) == i \in online
        InRegular(i) == i \in regular
        onlineSeq == SelectSeq(loc.todayCargoRows, InOnline)
        regularSeq == SelectSeq(loc.todayCargoRows, InRegular)
    IN /\ loc.onlineAWBs = [k \in DOMAIN onlineSeq |-> grid[onlineSeq[k]].D]
       /\ loc.cargoData.totalTonaseOnline
            = PlusAll([k \in DOMAIN onlineSeq |->
                 IF build = "range"
                 THEN Plus(zeroIfNaN(numberOf(grid[onlineSeq[k]].H)),
                           zeroIfNaN(numberOf(grid[onlineSeq[k]].G)))
                 ELSE numberOf(grid[onlineSeq[k]].H)])
       /\ loc.cargoData.totalAWB = Len(regularSeq)
       /\ loc.cargoData.totalTonase
            = PlusAll([k \in DOMAIN regularSeq |-> numberOf(grid[regularSeq[k]].H)])

\* the range build scanned an online row with both weights: 4 + 1
C10_Witness ==
  /\ CargoScanned
  /\ build = "range"
  /\ \E i \in onlineRows : Truthy(cargoGrid[i].G) /\ Truthy(cargoGrid[i].H)
  /\ loc.cargoData.totalTonaseOnline = Num(5)

\* C11: the cash, bank-transfer, cash-on-delivery and packing sums of the
\* cargo table are the sums of the coerced payment cells of all collected
\* rows whose identifier is non-empty and is not 'total', online, regular
\* and ignored rows alike; the collected rows with an empty identifier or
\* the identifier 'total' add to no sum and to no count.
C11_PaymentsOfIdentifiedRows ==
  CargoScanned =>
    LET grid == cargoGrid
        identified(i) ==
          /\ trim(grid[i].D) # Empty
          /\ toLowerCase(grid[i].D) # <<"t","o","t","a","l">>
        rows == SelectSeq(loc.todayCargoRows, identified)
        cells(i) == grid[rows[i]]
    IN /\ loc.cargoData.totalTunai
            = PlusAll([k \in DOMAIN rows |-> numberOf(cells(k).I)])
       /\ loc.cargoData.totalTfMandiri
            = PlusAll([k \in DOMAIN rows |->
                         Plus(numberOf(cells(k).K), numberOf(cells(k).L))])
       /\ loc.cargoData.totalTfBca
            = PlusAll([k \in DOMAIN rows |-> numberOf(cells(k).M)])
       /\ loc.cargoData.totalDfod
            = PlusAll([k \in DOMAIN rows |-> numberOf(cells(k).O)])
       /\ loc.cargoData.totalPacking
            = PlusAll([k \in DOMAIN rows |-> numberOf(cells(k).P)])
       /\ loc.cargoData.totalAWB + Len(loc.onlineAWBs) <= Len(rows)

\* a scan that collected a paid row with an ignored identifier and a paid
\* row with the identifier 'total' or none
C11_Witness ==
  /\ CargoScanned
  /\ \E i \in Range(loc.todayCargoRows) :
        /\ isCountedAwb(cargoGrid[i].D)
        /\ ~isOnlineAwb(cargoGrid[i].D) /\ ~isNumericAwb(cargoGrid[i].D)
        /\ Truthy(cargoGrid[i].O) /\ Truthy(cargoGrid[i].P)
  /\ \E i \in Range(loc.todayCargoRows) :
        ~isCountedAwb(cargoGrid[i].D) /\ Truthy(cargoGrid[i].I)
  /\ loc.cargoData.totalDfod # Num(0)
  /\ loc.cargoData.totalTfMandiri # Num(0)

\* C12: an express row of the target day's segment with the text 'total',
\* in any letter case, in any of its cells is left out of the express count
\* and of every express sum whatever its payment cells hold: no such row is
\* counted, and the express aggregate is the one of the same table with the
\* payment cells of these rows emptied.
C12_TotalRowsExcluded ==
  ExpressScanned =>
    LET grid == expressGrid
        isTotalRow(i) ==
          \E k \in DOMAIN ExpressCells(grid[i]) :
             includes(toLowerCase(ExpressCells(grid[i])[k]), <<"t","o","t","a","l">>)
        emptied == [i \in DOMAIN grid |->
                      IF isTotalRow(i)
                      THEN [grid[i] EXCEPT !.AK = Empty, !.AM = Empty,
                                           !.AO = Empty, !.AQ = Empty]
                      ELSE grid[i]]
    IN /\ \A i \in Range(loc.todayExpressRows) : ~isTotalRow(i)
       /\ loc.expressData
            = expressResult(emptied, expressSegment(emptied, todayLabel).rows)

\* a scan whose segment holds a paid row with 'TOTAL' in another cell and a
\* counted row
C12_Witness ==
  /\ ExpressScanned
  /\ \E i \in Range(loc.segExpress) :
        /\ expressGrid[i].AF = TotalUpper
        /\ Truthy(expressGrid[i].AK)
  /\ loc.expressData.totalAWBExpress >= 1

\* C13 as stated: the express count is the number of rows of the target
\* day's segment that hold no 'total' cell and have a payment cell (cash,
\* bank, alternate bank, packing) that is not empty, a cell of white space
\* being empty; each express sum is the sum of the coerced non-empty cells of
\* its column over the counted rows.
C13_CountIsPaidRows ==
  ExpressScanned =>
    LET grid == expressGrid
        nonEmpty(cell) == trim(cell) # Empty
        isTotalRow(i) ==
          \E k \in DOMAIN ExpressCells(grid[i]) :
             includes(toLowerCase(ExpressCells(grid[i])[k]), <<"t","o","t","a","l">>)
        paid(i) == \/ nonEmpty(grid[i].AK) \/ nonEmpty(grid[i].AM)
                   \/ nonEmpty(grid[i].AO) \/ nonEmpty(grid[i].AQ)
        isCounted(i) == ~isTotalRow(i) /\ paid(i)
        rows == SelectSeq(loc.segExpress, isCounted)
        coerced(cell) ==
          IF nonEmpty(cell) THEN parseFloat(stripNonNumeric(cell)) ELSE Num(0)
    IN /\ loc.expressData.totalAWBExpress = Len(rows)
       /\ loc.expressData.totalTunaiExpress
            = PlusAll([k \in DOMAIN rows |-> coerced(grid[rows[k]].AK)])
       /\ loc.expressData.totalTfMandiriExpress
            = PlusAll([k \in DOMAIN rows |-> coerced(grid[rows[k]].AM)])
       /\ loc.expressData.totalTfBcaExpress
            = PlusAll([k \in DOMAIN rows |-> coerced(grid[rows[k]].AO)])
       /\ loc.expressData.totalPackingExpress
            = PlusAll([k \in DOMAIN rows |-> coerced(grid[rows[k]].AQ)])

PengeluaranScanned == ReadOk("B226:S248")

\* C14: an expense row is matched only by its own date cell, which must be
\* the target day written with or without the leading zero, so a row with
\* an empty date cell is never matched; a matched row with a description
\* adds its amount to the expense total when the amount cell is not empty,
\* and otherwise its description to the items-without-price list, never
\* both.
C14_ExpenseRowsByOwnDate ==
  PengeluaranScanned =>
    LET rows == sheet.pengeluaran
        matched(k) ==
          rows[k].B = dayToString(cur) \/ rows[k].B = <<"0">> \o dayToString(cur)
        described(k) == trim(rows[k].D) # Empty
        priced(k) == matched(k) /\ described(k) /\ trim(rows[k].M) # Empty
        unpriced(k) == matched(k) /\ described(k) /\ trim(rows[k].M) = Empty
        index == [k \in DOMAIN rows |-> k]
        pricedRows == SelectSeq(index, priced)
        unpricedRows == SelectSeq(index, unpriced)
    IN /\ loc.pengeluaranData.totalPengeluaran
            = PlusAll([k \in DOMAIN pricedRows |->
                         parseFloat(stripNonNumeric(rows[pricedRows[k]].M))])
       /\ loc.pengeluaranData.itemsWithoutPrice
            = [k \in DOMAIN unpricedRows |-> trim(rows[unpricedRows[k]].D)]

\* day 5 as '5' without an amount, directly above a priced row without a
\* date: the list holds 'fuel' and the total is 0
C14_Witness ==
  /\ PengeluaranScanned
  /\ cur = 5
  /\ \E k \in DOMAIN sheet.pengeluaran :
        /\ sheet.pengeluaran[k].B = Label5
        /\ k + 1 \in DOMAIN sheet.pengeluaran
        /\ sheet.pengeluaran[k + 1].B = Empty
        /\ Truthy(sheet.pengeluaran[k + 1].D) /\ Truthy(sheet.pengeluaran[k + 1].M)
  /\ loc.pengeluaranData.itemsWithoutPrice = <<Fuel>>
  /\ loc.pengeluaranData.totalPengeluaran = Num(0)

\* the search for the PENGELUARAN row of the current day has run
EndRowSearched == ReadOk("B13:B300") \/ ReadOk("B13:B300/express")

\* C15: when the target day's label is nowhere in a table that was read,
\* an empty table included, the day's aggregate of that table is the
\* all-zero / empty one and the request is answered without an error: the
\* search for the end of the block gives the fallback row when no heading
\* is found, the segment is empty, counts and sums are 0 and the lists are
\* empty.
C15_AbsentDayIsZero ==
  /\ (EndRowSearched /\ \A k \in DOMAIN sheet.cargo :
                          ~includes(toUpperCase(sheet.cargo[k].B), Marker))
       => loc.endRow = 300
  /\ (CargoScanned /\ \A i \in DOMAIN cargoGrid : cargoGrid[i].B # todayLabel)
       => /\ loc.todayCargoRows = <<>>
          /\ loc.onlineAWBs = <<>>
          /\ loc.cargoData =
               [totalAWB |-> 0, totalAWBOnline |-> TBD, totalTonase |-> Num(0),
                totalTonaseOnline |-> Num(0), totalTunai |-> Num(0),
                totalTfMandiri |-> Num(0), totalTfBca |-> Num(0),
                totalDfod |-> Num(0), totalPacking |-> Num(0)]
  /\ (ExpressScanned /\ \A i \in DOMAIN expressGrid : expressGrid[i].AD # todayLabel)
       => /\ loc.segExpress = <<>>
          /\ loc.expressData =
               [totalAWBExpress |-> 0, totalTunaiExpress |-> Num(0),
                totalTfMandiriExpress |-> Num(0), totalTfBcaExpress |-> Num(0),
                totalPackingExpress |-> Num(0)]
  /\ (PengeluaranScanned /\ \A k \in DOMAIN sheet.pengeluaran :
                              sheet.pengeluaran[k].B \notin {dayToString(cur), todayLabel})
       => loc.pengeluaranData = [totalPengeluaran |-> Num(0), itemsWithoutPrice |-> <<>>]
  /\ (pc = "done" /\ req.kind = "daily" /\ reads # {}) =>
       /\ resp.status = 200
       /\ resp.success

\* the answer for a sheet whose three tables are empty
C15_Witness ==
  /\ pc = "done" /\ req.kind = "daily"
  /\ sheet.cargo = <<>>
  /\ CargoScanned /\ ExpressScanned /\ PengeluaranScanned
  /\ loc.endRow = 300
  /\ resp.status = 200
  /\ resp.data.cargo.totalAWB = 0
  /\ resp.data.cargo.totalAWBOnline = TBD

\* C16 as stated: when every row of the target day's segment has empty
\* payment cells (a cell of white space is empty), every numeric field of
\* the returned totals, counts, weights and payment sums, is exactly 0.
C16_EmptyPaymentsAllZero ==
  /\ (/\ CargoScanned
      /\ \A i \in Range(loc.todayCargoRows) :
            \A cell \in {cargoGrid[i].I, cargoGrid[i].K, cargoGrid[i].L,
                         cargoGrid[i].M, cargoGrid[i].O, cargoGrid[i].P} :
               trim(cell) = Empty)
       => /\ loc.cargoData.totalAWB = 0
          /\ \A f \in {"totalTonase", "totalTonaseOnline", "totalTunai",
                       "totalTfMandiri", "totalTfBca", "totalDfod", "totalPacking"} :
                loc.cargoData[f] = Num(0)
  /\ (/\ ExpressScanned
      /\ \A i \in Range(loc.segExpress) :
            \A cell \in {expressGrid[i].AK, expressGrid[i].AM,
                         expressGrid[i].AO, expressGrid[i].AQ} :
               trim(cell) = Empty)
       => /\ loc.expressData.totalAWBExpress = 0
          /\ \A f \in {"totalTunaiExpress", "totalTfMandiriExpress",
                       "totalTfBcaExpress", "totalPackingExpress"} :
                loc.expressData[f] = Num(0)

\* the numeric fields of a daily report that hold sums, and its counts
CargoSums ==
  {"totalTonase", "totalTonaseOnline", "totalTunai", "totalTfMandiri",
   "totalTfBca", "totalDfod", "totalPacking"}
ExpressSums ==
  {"totalTunaiExpress", "totalTfMandiriExpress", "totalTfBcaExpress",
   "totalPackingExpress"}

C18_OnlineEntryPerDay ==
  RangeDone =>
    LET rs == resp.data.dailyReports
        list == resp.data.aggregated.cargo.totalAWBOnline
        hasOnline(k) == rs[k].cargo.totalAWBOnline # <<"T","B","D">>
        days == SelectSeq([k \in DOMAIN rs |-> k], hasOnline)
    IN /\ list # <<>>
       /\ IF days = <<>>
          THEN list = <<NoOnline>>
          ELSE list = [j \in DOMAIN days |->
                         isoDate(rs[days[j]].date) \o <<":", " ">>
                           \o rs[days[j]].cargo.totalAWBOnline]

\* a range of two days of which only the first has an online identifier
C18_Witness ==
  /\ RangeDone
  /\ Len(resp.data.dailyReports) = 2
  /\ resp.data.dailyReports[1].cargo.totalAWBOnline = Shopee
  /\ resp.data.dailyReports[2].cargo.totalAWBOnline = TBD
  /\ Len(resp.data.aggregated.cargo.totalAWBOnline) = 1

\* C19 as stated: in the range aggregate totalUniqueEmployees is the size
\* of the union of the present employees' names over the days,
\* totalAttendanceDays is the sum over the days of the number of present
\* employees, and averageAttendancePerDay is the number totalAttendanceDays
\* / number of daily reports rounded to one decimal.
C19_AttendanceAverageIsNumber ==
  RangeDone =>
    LET rs == resp.data.dailyReports
        att == resp.data.aggregated.attendance
        names == UNION {{rs[k].attendance[j].name : j \in DOMAIN rs[k].attendance} :
                          k \in DOMAIN rs}
        present == [k \in DOMAIN rs |-> Len(rs[k].attendance)]
        tenths == (20 * countOf(present) + Len(rs)) \div (2 * Len(rs))
    IN /\ att.totalUniqueEmployees = Cardinality(names)
       /\ att.totalAttendanceDays = countOf(present)
       /\ att.averageAttendancePerDay.type = "number"
       /\ att.averageAttendancePerDay.value = Normal(tenths, 1)

\* a parameter of the form YYYY-MM-DD that names a day of the calendar
IsCalendarDate(param) ==
  /\ Len(param) = 10
  /\ \A k \in {1, 2, 3, 4, 6, 7, 9, 10} : param[k] \in DigitSet
  /\ param[5] = "-" /\ param[8] = "-"
  /\ monthOf(param) \in 1..12
  /\ dayOf(param) \in 1..DaysInMonth(yearOf(param), monthOf(param))

\* the start parameter names a later day than the end parameter
StartAfterEnd(startDate, endDate) ==
  \/ yearOf(startDate) > yearOf(endDate)
  \/ /\ yearOf(startDate) = yearOf(endDate)
     /\ monthOf(startDate) > monthOf(endDate)
  \/ /\ yearOf(startDate) = yearOf(endDate)
     /\ monthOf(startDate) = monthOf(endDate)
     /\ dayOf(startDate) > dayOf(endDate)

\* the request received must be refused
InvalidRequest ==
  IF req.kind = "daily" THEN ~IsCalendarDate(req.date)
  ELSE /\ req.kind = "range"
       /\ \/ ~IsCalendarDate(req.startDate)
          \/ ~IsCalendarDate(req.endDate)
          \/ StartAfterEnd(req.startDate, req.endDate)

\* C20 as stated: a request whose date parameter is not of the form
\* YYYY-MM-DD or is not a valid date, and a range request whose start date
\* is after its end date, is answered with HTTP 400 and success = false, and
\* no report generation, hence no sheet read, is started for it.
C20_InvalidRequestIs400 ==
  InvalidRequest =>
    /\ reads = {}
    /\ pc \in {"idle", "done"}
    /\ pc = "done" => (resp.status = 400 /\ resp.success = FALSE)

\* ---------------------------------------------------------------------
\* The end of the cargo and express blocks
\* ---------------------------------------------------------------------
\* the rows of the label column, counted from sheet row 13, whose cell
\* contains the heading in any letter case
markerRows ==
  {k \in DOMAIN sheet.cargo : includes(toUpperCase(sheet.cargo[k].B), Marker)}
firstMarker == CHOOSE k \in markerRows : \A j \in markerRows : k <= j

\* the sheet row of the k-th row of the label column and of the cargo
\* range, and of the j-th row of the express range
cargoSheetRow(k) == 12 + k
expressSheetRow(j) == 8 + j

\* C22: the scan of the label column for the end of the blocks gives the
\* number of the sheet row just before the first row whose label contains
\* 'PENGELUARAN' in any letter case, so that the cargo and express ranges
\* that are read hold the rows above the heading and neither the row of
\* the heading nor a row below it; with no heading in the column it gives
\* the fallback row 300.
C22_EndRowBeforeMarker ==
  /\ EndRowSearched =>
       loc.endRow = IF markerRows = {} THEN 300 ELSE cargoSheetRow(firstMarker) - 1
  /\ (CargoScanned /\ markerRows # {}) =>
       /\ \A k \in DOMAIN sheet.cargo :
            (k \in DOMAIN cargoGrid) <=> cargoSheetRow(k) < cargoSheetRow(firstMarker)
       /\ \A k \in DOMAIN cargoGrid : cargoGrid[k] = sheet.cargo[k]
  /\ (ExpressScanned /\ markerRows # {}) =>
       /\ \A j \in DOMAIN sheet.express :
            (j \in DOMAIN expressGrid) <=> expressSheetRow(j) < cargoSheetRow(firstMarker)
       /\ \A j \in DOMAIN expressGrid : expressGrid[j] = sheet.express[j]

\* a heading in small letters on sheet row 15: the blocks end at row 14,
\* and the rows of both blocks from row 15 on are not read
C22_Witness ==
  /\ CargoScanned /\ ExpressScanned
  /\ Len(sheet.cargo) = 5 /\ Len(cargoGrid) = 2
  /\ sheet.cargo[3].B = MarkerTitle
  /\ firstMarker = 3
  /\ loc.endRow = 14
  /\ Len(sheet.express) = 8 /\ Len(expressGrid) = 6

\* ---------------------------------------------------------------------
\* Regular parcels
\* ---------------------------------------------------------------------
\* the identifiers of the sheets that are a run of at least 10 digits and
\* nothing else
LongDigitRuns == {Awb10, Awb12}

\* C25: a collected cargo row whose identifier names no marketplace is a
\* regular parcel (one more in the regular count, its weight in the
\* regular weight) exactly when the identifier is a run of at least 10
\* digits and nothing else; a shorter identifier, and one with 10 digits
\* next to a space, a letter or a dash, adds to no count and to no weight.
C25_RegularIffLongDigitRun ==
  CargoScanned =>
    LET grid == cargoGrid
        IsRegular(i) == /\ isCountedAwb(grid[i].D)
                        /\ ~isOnlineAwb(grid[i].D)
                        /\ grid[i].D \in LongDigitRuns
        IsOnline(i) == isCountedAwb(grid[i].D) /\ isOnlineAwb(grid[i].D)
        regularSeq == SelectSeq(loc.todayCargoRows, IsRegular)
        onlineSeq == SelectSeq(loc.todayCargoRows, IsOnline)
    IN /\ loc.cargoData.totalAWB = Len(regularSeq)
       /\ loc.cargoData.totalTonase
            = PlusAll([k \in DOMAIN regularSeq |-> numberOf(grid[regularSeq[k]].H)])
       /\ loc.cargoData.totalTonaseOnline
            = PlusAll([k \in DOMAIN onlineSeq |-> onlineKgOf(build, grid[onlineSeq[k]])])

\* seven rows of 4 kg each with the identifiers 1234567890, 123456789,
\* '1234567890 ', 123456789012, ' 1234567890', 1234567890A and
\* 12345-67890: two parcels and 8 kg
C25_Witness ==
  /\ CargoScanned
  /\ Len(loc.todayCargoRows) = 7
  /\ \E i \in DOMAIN cargoGrid : cargoGrid[i].D = AwbSpaceAfter
  /\ loc.cargoData.totalAWB = 2
  /\ loc.cargoData.totalTonase = Num(8)
  /\ loc.cargoData.totalTonaseOnline = Num(0)

\* ---------------------------------------------------------------------
\* Summary rows and the day state of the express scan
\* ---------------------------------------------------------------------
\* the rows directly below row i of a column of date cells that carry no
\* label of their own
continuationBelow(col, i) ==
  {j \in DOMAIN col : j > i /\ \A k \in (i + 1)..j : ~IsLabel(col[k])}

\* C26: in the express scan a row with 'total' in a cell is never collected,
\* and its date cell still sets the day state like that of any row: when
\* the cell holds a text other than the target day (the word 'TOTAL', for
\* one) the segment is closed and the rows below it without a label are not
\* collected; when the cell is empty and the row is in the target segment,
\* the rows below it without a label stay in the segment and are collected
\* when they hold a payment.
C26_SummaryRowDrivesDayState ==
  ExpressScanned =>
    \A i \in DOMAIN expressGrid :
      hasTotal(expressGrid[i]) =>
        LET below == continuationBelow(expressDates, i)
            collected == Range(loc.todayExpressRows)
            segment == Range(loc.segExpress)
        IN /\ i \notin collected
           /\ (IsLabel(expressDates[i]) /\ expressDates[i] # todayLabel) =>
                \A j \in below : j \notin segment /\ j \notin collected
           /\ (~IsLabel(expressDates[i]) /\ i \in segment) =>
                \A j \in below :
                  /\ j \in segment
                  /\ (hasPayment(expressGrid[j]) /\ ~hasTotal(expressGrid[j]))
                       => j \in collected

\* day 05: a paid row, a summary row without a date, a paid row, a row
\* with 'TOTAL' as its date, a paid row: rows 1 and 3 are collected, row 5
\* is not
C26_Witness ==
  /\ ExpressScanned
  /\ todayLabel = Label05
  /\ Len(expressGrid) = 7
  /\ expressGrid[2].AF = TotalText /\ expressGrid[2].AD = Empty
  /\ expressGrid[4].AD = TotalUpper
  /\ Truthy(expressGrid[5].AK)
  /\ loc.segExpress = <<1, 2, 3, 6, 7>>
  /\ loc.todayExpressRows = <<1, 3, 7>>

\* ---------------------------------------------------------------------
\* Attendance
\* ---------------------------------------------------------------------
AttendanceRead == ReadOk("A3:BM")

\* C30: getTodayAttendance reports an employee present exactly when the in
\* cell or the out cell of the target day is not empty ('Off' is not
\* empty); no record it returns has an empty in-time with an out-time other
\* than 'Off'; and the attendance list of the daily report holds the
\* present employees and no others, in the order of the sheet.
C30_PresentIffCellFilled ==
  AttendanceRead =>
    LET emps == sheet.att.emps
        cells == [k \in DOMAIN emps |-> cellsOn(emps[k], cur)]
        records == getTodayAttendance(emps, cur)
        Filled(k) == cells[k].inTime # Empty \/ cells[k].outTime # Empty
        present == SelectSeq([k \in DOMAIN emps |-> k], Filled)
    IN /\ \A k \in DOMAIN emps : records[k].isPresent <=> Filled(k)
       /\ \A k \in DOMAIN emps :
            ~(records[k].inTime = Empty /\ records[k].outTime \notin {Empty, Off})
       /\ Len(loc.attendanceData) = Len(present)
       /\ \A k \in DOMAIN present :
            /\ loc.attendanceData[k].name = emps[present[k]].name
            /\ loc.attendanceData[k].inTime # Dash
                 \/ loc.attendanceData[k].outTime = Off

\* day 5 of a block of five: Fani with 'OFF' as her out cell, Dedi with
\* empty cells, Budi with an out cell only, Gita with a space, Ani with
\* both cells
C30_Witness ==
  /\ AttendanceRead
  /\ cur = 5
  /\ sheet.att.emps = <<Fani, Dedi, Budi, Gita, Ani>>
  /\ loc.attendanceData =
       << [name |-> Fani.name, inTime |-> Dash, outTime |-> Off],
          [name |-> Budi.name, inTime |-> Budi.outTime, outTime |-> Dash],
          [name |-> Gita.name, inTime |-> Blank, outTime |-> Dash],
          [name |-> Ani.name, inTime |-> Ani.inTime, outTime |-> Ani.outTime] >>

\* ---------------------------------------------------------------------
\* The numeric coercion of a cell, alone
\* ---------------------------------------------------------------------
MaxCellLen == 3

\* cell texts: every text of up to MaxCellLen characters of CellChars, and
\* some longer ones
CellChars == {"0", "1", "-", ".", ",", " "}
Dash1234 == <<"1","2","-","3","4">>
Tiny == <<"0",".","0","0","0","0","0","0","1">>
Micro == <<"0",".","0","0","0","0","0","1">>
CoerceCells ==
  SeqsUpTo(CellChars, MaxCellLen) \cup {Dash1234, Tiny, Micro, Rp1000, Kg25, Abc}

Zeros(n) == [k \in 1..n |-> "0"]

\* Number.prototype.toString (radix 10) of a number with decimal digits
\* `ds` and its decimal point after digit n of them: the digits with the
\* point put in for -6 < n, and d.ddde-x for a smaller number.  (The
\* numbers of the model are below 10^21, where the other exponent form
\* begins.)
numberToString(v) ==
  IF v.nan THEN <<"N","a","N">>
  ELSE IF v.m = 0 THEN <<"0">>
  ELSE LET sign == IF v.m < 0 THEN <<"-">> ELSE <<>>
           ds == natToString(IF v.m < 0 THEN 0 - v.m ELSE v.m)
           k == Len(ds)
           n == k - v.e
       IN sign \o
          (IF v.e = 0 THEN ds
           ELSE IF n > 0 THEN SubSeq(ds, 1, n) \o <<".">> \o SubSeq(ds, n + 1, k)
           ELSE IF n > -6 THEN <<"0", ".">> \o Zeros(0 - n) \o ds
           ELSE <<ds[1]>> \o (IF k > 1 THEN <<".">> \o SubSeq(ds, 2, k) ELSE <<>>)
                \o <<"e", "-">> \o natToString(1 - n))

CoerceInit ==
  /\ sheet = EmptySheet
  /\ net = AllDays("up")
  /\ build = "base"
  /\ req = [kind |-> "none"]
  /\ pc = "off"
  /\ cur = 0
  /\ loc = NoLoc
  /\ reports = <<>>
  /\ reads = {}
  /\ resp = NoResp
  /\ instant = 0
  /\ zone = Utc
  /\ parked = NoParked
  /\ cli = NoCli
  /\ \E cell \in CoerceCells : calc = [stage |-> "cell", cell |-> cell]

\* cell ? parseFloat(cell.toString().replace(/[^\d.-]/g, '')) : 0
Coerce ==
  /\ calc.stage = "cell"
  /\ calc' = [stage |-> "number", cell |-> calc.cell, number |-> numberOf(calc.cell)]
  /\ UNCHANGED <<fixed, req, pc, cur, loc, reports, reads, resp, instant, parked, cli>>

\* the same expression for a cell that holds the number: toString gives
\* its text, which is stripped and parsed
CoerceNumber ==
  /\ calc.stage = "number"
  /\ calc' = [stage |-> "again", cell |-> calc.cell, number |-> calc.number,
              text |-> numberToString(calc.number),
              again |-> numberOf(numberToString(calc.number))]
  /\ UNCHANGED <<fixed, req, pc, cur, loc, reports, reads, resp, instant, parked, cli>>

CoerceNext == Coerce \/ CoerceNumber

CoerceSpec == CoerceInit /\ [][CoerceNext]_vars

\* the text that is left of a cell when only digits, '.' and a '-' in front
\* of them are kept
RECURSIVE keepLeadingMinus(_, _)
keepLeadingMinus(s, kept) ==
  IF s = <<>> THEN kept
  ELSE keepLeadingMinus(Tail(s),
         IF IsDigit(Head(s)) \/ Head(s) = "." \/ (Head(s) = "-" /\ kept = <<>>)
         THEN Append(kept, Head(s)) ELSE kept)

\* C23: the coercion of a cell parses what is left of it when only digits,
\* '.' and a leading '-' are kept; a '-' after the first kept character is
\* dropped, so that '12-34' gives 1234.
C23_InnerMinusDropped ==
  calc.stage \in {"number", "again"} =>
    calc.number = IF Truthy(calc.cell)
                  THEN parseFloat(keepLeadingMinus(calc.cell, <<>>))
                  ELSE Num(0)

\* C24: for a cell whose coercion is a number, the coercion of the text of
\* that number is the same number.
C24_CoercionIdempotent ==
  (calc.stage = "again" /\ ~calc.number.nan) => calc.again = calc.number

\* the same for the cells whose number has a text without an exponent (0,
\* and the numbers from 0.000001 on)
C24_IdempotentWithoutExponent ==
  (calc.stage = "again" /\ ~calc.number.nan
     /\ \A k \in DOMAIN calc.text : calc.text[k] # "e")
    => calc.again = calc.number

\* ---------------------------------------------------------------------
\* The server in other time zones
\* ---------------------------------------------------------------------
\* zones with one offset, east and west of UTC
Jakarta == Zone(7, 0, 7)
NewYork == Zone(0 - 4, 0, 0 - 4)
\* zones whose clocks change at 01:00 UTC of the first day of Days: back
\* from UTC+2 to UTC+1, as in Europe on the last Sunday of October, and
\* forward from UTC+1 to UTC+2, as on the last Sunday of March
ClocksBack == Zone(2, 24 * 5 + 1, 1)
ClocksForward == Zone(1, 24 * 5 + 1, 2)

Zones == {Utc, Jakarta, NewYork, ClocksBack, ClocksForward}

\* the data source answers on every local day a request can name
ZoneDays(mode) == [d \in 4..(LastDay + 2) |-> mode]

ZoneInputs ==
  {Input(TwoDaySheet, ZoneDays("up"), bd, rq) :
     bd \in {"base", "range"}, rq \in DailyRequests \cup TodayRequests}
  \cup {Input(TwoDaySheet, ZoneDays("up"), "range", rq) : rq \in RangeRequests}

ZoneInit ==
  /\ \E i \in ZoneInputs :
       /\ sheet = i.sheet
       /\ net = i.net
       /\ build = i.build
       /\ req = i.req
  /\ zone \in Zones
  /\ pc = "idle"
  /\ cur = 0
  /\ loc = NoLoc
  /\ reports = <<>>
  /\ reads = {}
  /\ resp = NoResp
  /\ instant = 0
  /\ parked = NoParked
  /\ cli = NoCli
  /\ calc = NoCalc

ZoneSpec == ZoneInit /\ [][Next]_vars

\* C27: for a range whose start is not after its end, when no day fails
\* the answer holds one report for each calendar day from start to end, in
\* ascending order of their dates, and totalDays is the number of these
\* days.
C27_OneReportPerDay ==
  (pc = "done" /\ req.kind = "range" /\ resp.status = 200
     /\ \A r \in reads : r.ok) =>
    LET first == dayOf(req.startDate)
        last == dayOf(req.endDate)
    IN /\ resp.data.totalDays = last - first + 1
       /\ Len(resp.data.dailyReports) = last - first + 1
       /\ \A k \in DOMAIN resp.data.dailyReports :
            resp.data.dailyReports[k].date = first + k - 1

\* C28: the day of month of a daily report's date field is the day of
\* month whose rows and attendance columns the report was made of.
C28_DateFieldIsRowDay ==
  (pc = "done" /\ req.kind \in {"daily", "today"} /\ resp.status = 200) =>
    resp.data.date = cur

\* ---------------------------------------------------------------------
\* The command-line daily report
\* ---------------------------------------------------------------------
CliFallbackEndRow == 200

\* the scan of B13:B300 for the PENGELUARAN row
RECURSIVE cliFindMarker(_, _)
cliFindMarker(searchData, i) ==
  IF i >= Len(searchData) THEN CliFallbackEndRow
  ELSE LET cellValue == searchData[i + 1]
       IN IF Truthy(cellValue) /\ includes(toUpperCase(cellValue), Marker)
          THEN CargoStartRow + i - 1
          ELSE cliFindMarker(searchData, i + 1)

\* cargoData.forEach: the indices of the rows pushed to todayCargoRows
RECURSIVE cliCollectCargo(_, _, _, _, _)
cliCollectCargo(rows, i, currentDate, todayDay, acc) ==
  IF i > Len(rows) THEN acc
  ELSE LET dateValue == rows[i].B
           day == IF Truthy(dateValue) /\ trim(dateValue) # Empty
                  THEN IF dateValue = todayDay THEN todayDay ELSE Null
                  ELSE currentDate
       IN cliCollectCargo(rows, i + 1, day, todayDay,
                          IF day = todayDay THEN Append(acc, i) ELSE acc)

\* the body of todayCargoRows.forEach for one entry: DFOD is read from
\* column N and packing from column O
cliAccumulateCargo(t, row) ==
  IF Truthy(row.D) /\ trim(row.D) # Empty
  THEN LET paid == [t EXCEPT
                 !.totalTunai = Plus(@, numberOf(row.I)),
                 !.totalTfMandiri = Plus(@, Plus(numberOf(row.K), numberOf(row.L))),
                 !.totalTfBca = Plus(@, numberOf(row.M)),
                 !.totalDfod = Plus(@, numberOf(row.N)),
                 !.totalPacking = Plus(@, numberOf(row.O))]
       IN IF isOnlineAwb(row.D)
          THEN [paid EXCEPT !.onlineAWBs = Append(@, row.D),
                            !.totalOnlineKg = Plus(@, numberOf(row.H))]
          ELSE IF isNumericAwb(row.D)
          THEN [paid EXCEPT !.totalAWB = @ + 1, !.totalKg = Plus(@, numberOf(row.H))]
          ELSE paid
  ELSE t

RECURSIVE cliFoldCargo(_, _, _, _)
cliFoldCargo(rows, seg, k, t) ==
  IF k > Len(seg) THEN t
  ELSE cliFoldCargo(rows, seg, k + 1, cliAccumulateCargo(t, rows[seg[k]]))

\* the lines 2.1 to 2.9 of the printed report
cliCargo(sh, todayDay) ==
  LET rows == cargoRange(sh, cliFindMarker(labelColumn(sh), 0))
  IN cargoResult(cliFoldCargo(rows, cliCollectCargo(rows, 1, Null, todayDay, <<>>),
                              1, ZeroCargo))

\* expressData.forEach: the indices of the rows pushed to todayExpressRows
RECURSIVE cliCollectExpress(_, _, _, _, _)
cliCollectExpress(rows, i, currentDate, todayDay, acc) ==
  IF i > Len(rows) THEN acc
  ELSE LET dateValue == rows[i].AD
           day == IF Truthy(dateValue) /\ trim(dateValue) # Empty
                  THEN IF dateValue = todayDay THEN todayDay ELSE Null
                  ELSE currentDate
       IN cliCollectExpress(rows, i + 1, day, todayDay,
            IF day = todayDay /\ hasPayment(rows[i]) THEN Append(acc, i) ELSE acc)

\* the lines 3.1 to 3.5 of the printed report
cliExpress(sh, todayDay) ==
  LET rows == expressRange(sh, cliFindMarker(labelColumn(sh), 0))
  IN expressResult(rows, cliCollectExpress(rows, 1, Null, todayDay, <<>>))

\* pengeluaranData.forEach for one row: the date is read from column C and
\* compared with the day without padding
cliAccumulatePengeluaran(t, row, targetDay) ==
  IF Truthy(row.C) /\ row.C = targetDay /\ Truthy(row.D) /\ trim(row.D) # Empty
  THEN IF Truthy(row.M) /\ trim(row.M) # Empty
       THEN [t EXCEPT !.totalPengeluaran = Plus(@, parseFloat(stripNonNumeric(row.M)))]
       ELSE [t EXCEPT !.itemsWithoutPrice = Append(@, trim(row.D))]
  ELSE t

RECURSIVE cliFoldPengeluaran(_, _, _, _)
cliFoldPengeluaran(rows, k, d, t) ==
  IF k > Len(rows) THEN t
  ELSE cliFoldPengeluaran(rows, k + 1, d,
         cliAccumulatePengeluaran(t, rows[k], dayToString(d)))

\* the lines 4.1 and 4.2 of the printed report
cliPengeluaran(sh, d) == cliFoldPengeluaran(sh.pengeluaran, 1, d, DefaultPengeluaran)

\* node daily-report.js DD/MM/YYYY with the date of the answered request:
\* every read succeeds and the report is printed
CliReport ==
  /\ pc = "done" /\ req.kind = "daily" /\ resp.status = 200
  /\ ~cli.ran
  /\ dayOf(req.date) \in DOMAIN net /\ net[dayOf(req.date)] # "down"
  /\ cli' = [ran |-> TRUE, printed |-> TRUE,
             cargo |-> cliCargo(sheet, padStart2(dayToString(dayOf(req.date)))),
             express |-> cliExpress(sheet, padStart2(dayToString(dayOf(req.date)))),
             pengeluaran |-> cliPengeluaran(sheet, dayOf(req.date))]
  /\ UNCHANGED <<fixed, parked, calc, req, pc, cur, instant, loc, reports, reads, resp>>

\* a read of the run fails: the error is caught and no total is printed
CliFails ==
  /\ pc = "done" /\ req.kind = "daily" /\ resp.status = 200
  /\ ~cli.ran
  /\ dayOf(req.date) \in DOMAIN net /\ net[dayOf(req.date)] # "up"
  /\ cli' = [ran |-> TRUE, printed |-> FALSE]
  /\ UNCHANGED <<fixed, parked, calc, req, pc, cur, instant, loc, reports, reads, resp>>

\* rows with amounts in the columns N and C
DfodRow == [Paid(CargoRow(Label05, Awb10, Empty, Kg4, Rp500), Empty, Empty, Empty, Kg4, Kg1)
              EXCEPT !.N = Rp1000]
DatedExpense == [ExpenseRow(Label05, Fuel, Rp500) EXCEPT !.C = Label5]
PlainCargo == <<CargoRow(Label05, Awb10, Empty, Kg25, Rp1000),
                CargoRow(Empty, Shopee, Empty, Kg4, Rp500),
                CargoRow(Label06, Awb12, Empty, Kg1, Empty)>>

CliSheets ==
  {BaseSheet, TwoDaySheet, EmptySheet,
   MkSheet(PlainCargo, BaseExpress, <<>>, AttendanceBlock),
   MkSheet(PlainCargo, BaseExpress, <<DatedExpense>>, AttendanceBlock),
   MkSheet(<<DfodRow>>, BaseExpress, <<>>, AttendanceBlock),
   MkSheet(PlainCargo \o <<CargoRow(Empty, TotalText, Empty, Kg4, Rp500)>>,
           BaseExpress, <<>>, AttendanceBlock),
   MkSheet(PlainCargo \o <<MarkerTitleRow>> \o BaseCargo, LongExpress, <<>>,
           AttendanceBlock)}
  \cup {MkSheet(PlainCargo, e, <<>>, AttendanceBlock) : e \in ExpressTotalGrids}

CliInputs ==
  {Input(sh, AllDays(mode), bd, rq) :
     sh \in CliSheets, mode \in {"up", "flaky"}, bd \in {"base", "range"},
     rq \in DailyRequests}
  \cup {Input(TwoDaySheet, AllDays("up"), bd, rq) :
     bd \in {"base", "range"}, rq \in TodayRequests}
  \cup {Input(TwoDaySheet, AllDays("up"), "range", rq) : rq \in RangeRequests}

CliInit ==
  /\ \E i \in CliInputs :
       /\ sheet = i.sheet
       /\ net = i.net
       /\ build = i.build
       /\ req = i.req
  /\ zone = Utc
  /\ pc = "idle"
  /\ cur = 0
  /\ loc = NoLoc
  /\ reports = <<>>
  /\ reads = {}
  /\ resp = NoResp
  /\ instant = 0
  /\ parked = NoParked
  /\ cli = NoCli
  /\ calc = NoCalc

CliNext == Next \/ CliReport \/ CliFails

CliSpec == CliInit /\ [][CliNext]_vars

\* the reads of the answered request all succeeded
ServiceReadAll == \A r \in reads : r.ok

\* C29: for the same sheet and the same date the command-line report and
\* the service's daily report hold the same cargo, express and expense
\* totals.
C29_CliEqualsService ==
  (cli.ran /\ cli.printed /\ ServiceReadAll) =>
    /\ cli.cargo = resp.data.cargo
    /\ cli.express = resp.data.express
    /\ cli.pengeluaran = resp.data.pengeluaran

\* the two agree on a sheet without expenses, DFOD, packing and summary rows
C29_AgreeOnPlainSheet ==
  (cli.ran /\ cli.printed /\ ServiceReadAll /\ build = "base"
     /\ sheet = MkSheet(PlainCargo, BaseExpress, <<>>, AttendanceBlock)) =>
    /\ cli.cargo = resp.data.cargo
    /\ cli.express = resp.data.express
    /\ cli.pengeluaran = resp.data.pengeluaran

\* ---------------------------------------------------------------------
\* Two requests in one process
\* ---------------------------------------------------------------------
\* the state of a request that waits at an await (or has not started)
Suspended(rq) ==
  [req |-> rq, pc |-> "idle", cur |-> 0, instant |-> 0, loc |-> NoLoc,
   reports |-> <<>>, resp |-> NoResp]

\* variant: the intermediate results are kept in a field of the service
\* object, so a resumed request goes on with what the other request wrote
resumedShared(own, last) == last

\* the locals a request finds when it is resumed: its own, as they were
\* when it was suspended
resumed(own, last) == own

\* the event loop resumes the other request at its await, and the running
\* one waits
Switch ==
  /\ parked.pc \notin {"none", "done"}
  /\ parked' = [req |-> req, pc |-> pc, cur |-> cur, instant |-> instant,
                loc |-> loc, reports |-> reports, resp |-> resp]
  /\ req' = parked.req
  /\ pc' = parked.pc
  /\ cur' = parked.cur
  /\ instant' = parked.instant
  /\ loc' = resumed(parked.loc, loc)
  /\ reports' = parked.reports
  /\ resp' = parked.resp
  /\ UNCHANGED <<fixed, cli, calc, reads>>

ConcRequests(bd) ==
  DailyRequests \cup TodayRequests \cup (IF bd = "range" THEN RangeRequests ELSE {})

ConcInit ==
  /\ sheet = TwoDaySheet
  /\ net = AllDays("up")
  /\ build \in {"base", "range"}
  /\ req \in ConcRequests(build)
  /\ parked \in {Suspended(rq) : rq \in ConcRequests(build)}
  /\ zone = Utc
  /\ pc = "idle"
  /\ cur = 0
  /\ loc = NoLoc
  /\ reports = <<>>
  /\ reads = {}
  /\ resp = NoResp
  /\ instant = 0
  /\ cli = NoCli
  /\ calc = NoCalc

ConcNext == Next \/ Switch

ConcSpec == ConcInit /\ [][ConcNext]_vars

\* the report of day d for the instant t, when the request runs alone and
\* every read succeeds
reportAlone(d, t) ==
  LET todayDay == padStart2(dayToString(d))
      endRow == findEndRow(labelColumn(sheet))
      cargoData == cargoRange(sheet, endRow)
      expressData == expressRange(sheet, endRow)
  IN [date |-> utcDate(t),
      attendance |-> IF sheet.att.cargoHeading
                     THEN presentOnly(getTodayAttendance(sheet.att.emps, d))
                     ELSE <<>>,
      cargo |-> cargoResult(foldCargo(build, cargoData,
                                      cargoSegment(cargoData, todayDay), 1, ZeroCargo)),
      express |-> expressResult(expressData, expressSegment(expressData, todayDay).rows),
      pengeluaran |-> pengeluaranResult(sheet.pengeluaran, d)]

rangeAlone(first, last) ==
  LET list == [k \in 1..(last - first + 1) |->
                 reportAlone(first + k - 1, 24 * (first + k - 1))]
  IN [totalDays |-> Len(list), dailyReports |-> list,
      aggregated |-> aggregateReports(list)]

answerAlone(rq) ==
  IF rq.kind = "daily" THEN reportAlone(dayOf(rq.date), 24 * dayOf(rq.date))
  ELSE IF rq.kind = "today" THEN reportAlone(rq.now \div 24, rq.now)
  ELSE rangeAlone(dayOf(rq.startDate), dayOf(rq.endDate))

\* C21: when two requests are served with their awaits interleaved in any
\* order, the answer of each is the answer it gets when it runs alone on
\* the same sheet.
C21_AnswerAsAlone ==
  /\ (pc = "done" /\ resp.status = 200) => resp.data = answerAlone(req)
  /\ (parked.pc = "done" /\ parked.resp.status = 200) =>
       parked.resp.data = answerAlone(parked.req)

\* a request is answered while another request, for another day, waits in
\* the middle of its report
C21_Witness ==
  /\ pc = "done" /\ resp.status = 200
  /\ parked.pc \in {"cargoFetch", "expressSearch", "expressFetch", "pengeluaran"}
  /\ parked.loc # NoLoc
  /\ parked.cur # cur
  /\ resp.data = answerAlone(req)
  /\ resp.data # answerAlone(parked.req)
====
